---- MODULE Spec2Model ----
(***************************************************************************)
(* Verification model of the ptop analyzer:                                *)
(*   - the bundle catalog and its active pointer (support_store.py) and    *)
(*     the load_bundle / unload_bundle tools (mcp_app.py);                 *)
(*   - the coalescing TimescaleWriter (timescale/writer.py);               *)
(*   - the parallel ingestion orchestrator (ptops_ingest_parallel.py);     *)
(*   - the log parser (ingestion/parser.py);                               *)
(*   - the tools of mcp_app.py that work on one input: timescale_sql,      *)
(*     log discovery, the category allowlist, metric_search, extraction.   *)
(*   - two load_bundle calls interleaved on the shared catalog             *)
(*     connection, one catalog statement at a time.                        *)
(* Each component has its own specification over the shared variables;     *)
(* the variables of the other components stay at their initial values.     *)
(***************************************************************************)
EXTENDS Integers, Sequences, FiniteSets, Bags, TLC

\* ------------------------------------------------------------------------
\* Bounds of the model
\* ------------------------------------------------------------------------
NumSptids == 2
NumHashes == 2
MaxIds == 2
MaxMetrics == 1
MaxLogs == 1

\* Python None / SQL NULL
NULL == 0

Sptids == 1..NumSptids
Hashes == 1..NumHashes
BundleIds == 1..MaxIds

\* writer bounds
MaxBatch == 2
MaxBatchCap == 3
MaxRows == 2

\* ingestion bounds
NumFiles == 2
WorkerBatch == 2

\* parser bound: lines of a log file
MaxLines == 3

\* SQL gateway bound: pieces of a query after its first word
MaxBody == 2

\* discovery bounds: days the log names carry, and the largest max_files
MaxDay == 2
MaxFilesArg == 3

\* lines of the log file of a loaded bundle
MaxLoadLines == 2

\* documents a metric search returns
MaxMatches == 2

\* members of a bundle archive
MaxMembers == 2

VARIABLES
    bundles,        \* rows of table bundles (a set of records)
    global_active,  \* rows of table global_active (at most the row id=1)
    next_uuid,      \* the next value uuid.uuid4() produces
    result,         \* the last tool call and what it returned
    writer,         \* the TimescaleWriter object (its fields)
    store,          \* the rows committed to the analytical store (a bag)
    files,          \* log_paths: the log files of one ingestion call
    max_workers,    \* size of the thread pool
    task,           \* process_single_file(path), one per file
    writer_lock,    \* threading.Lock guarding the writer
    orch,           \* the body of ingest_ptop_logs_parallel
    parser,         \* a PTOPSParser object and its last iteration
    tool            \* one tool of the server, what it works on and its last call

bundle_vars == <<bundles, global_active, next_uuid, result>>

writer_vars == <<writer, store>>

par_vars == <<files, max_workers, task, writer_lock, orch>>

parser_vars == <<parser>>

tool_vars == <<tool>>

vars == <<bundle_vars, writer_vars, par_vars, parser_vars, tool_vars>>

\* ------------------------------------------------------------------------
\* support_store.py
\* ------------------------------------------------------------------------

\* cursor.fetchone(): the first row of a result set, or None (the empty set)
fetchone(S) == IF S = {} THEN {} ELSE {CHOOSE r \in S : TRUE}

\* the two query parameters bound in the wrong order
get_bundle_by_hash_swapped(rows, sptid, bundle_hash) ==
    fetchone({r \in rows : r.sptid = bundle_hash /\ r.bundle_hash = sptid})

\* SELECT * FROM bundles WHERE sptid=? AND bundle_hash=?
get_bundle_by_hash(rows, sptid, bundle_hash) ==
    fetchone({r \in rows : r.sptid = sptid /\ r.bundle_hash = bundle_hash})

get_bundle(rows, bundle_id) ==
    fetchone({r \in rows : r.bundle_id = bundle_id})

\* bundle_id TEXT PRIMARY KEY, UNIQUE(sptid, bundle_hash)
schema_conflict(rows, rec) ==
    \E r \in rows : \/ r.bundle_id = rec.bundle_id
                    \/ (r.sptid = rec.sptid /\ r.bundle_hash = rec.bundle_hash)

\* INSERT INTO bundles: raises sqlite3.IntegrityError on a constraint violation
insert_bundle(rows, rec) ==
    IF schema_conflict(rows, rec)
    THEN [raised |-> TRUE, rows |-> rows]
    ELSE [raised |-> FALSE, rows |-> rows \cup {rec}]

\* only the INSERT branch: an existing row id=1 is left as it is
set_global_active_insert_only(ga, bundle_id) ==
    IF \E g \in ga : g.id = 1
    THEN ga
    ELSE ga \cup {[id |-> 1, bundle_id |-> bundle_id]}

\* The foreign key of global_active is declared but sqlite3 does not enforce
\* it (PRAGMA foreign_keys is never switched on), so any id can be stored.
set_global_active(ga, bundle_id) ==
    IF \E g \in ga : g.id = 1
    THEN {[g EXCEPT !.bundle_id = bundle_id] : g \in ga}
    ELSE ga \cup {[id |-> 1, bundle_id |-> bundle_id]}

\* returns the active bundle_id, or NULL for "no row or bundle_id is NULL"
get_global_active(ga) ==
    IF \E g \in ga : g.id = 1 /\ g.bundle_id # NULL
    THEN (CHOOSE g \in ga : g.id = 1).bundle_id
    ELSE NULL

\* the UPDATE ... SET bundle_id=NULL left out
unload_global_active_noop(ga) == ga

unload_global_active(ga) ==
    IF get_global_active(ga) = NULL THEN ga
    ELSE {[g EXCEPT !.bundle_id = NULL] : g \in ga}

\* never promotes
promote_candidates_none(ga, rows) == {NULL}

\* The ids promote_random_bundle may return (NULL: nothing promoted).
\* ORDER BY RANDOM() LIMIT 1 picks any row.
promote_candidates(ga, rows) ==
    IF get_global_active(ga) # NULL THEN {NULL}
    ELSE IF rows = {} THEN {NULL}
    ELSE {r.bundle_id : r \in rows}

promote_random_bundle(ga, picked) ==
    IF picked = NULL THEN ga ELSE set_global_active(ga, picked)

\* the DELETE not executed
delete_bundle_row_noop(rows, bundle_id) == rows

\* DELETE FROM bundles without its WHERE clause
delete_bundle_row_all(rows, bundle_id) == {}

\* DELETE FROM bundles WHERE bundle_id=?
delete_bundle_row(rows, bundle_id) == {r \in rows : r.bundle_id # bundle_id}

\* ------------------------------------------------------------------------
\* mcp_app.py: load_bundle / unload_bundle / active_context
\* ------------------------------------------------------------------------

NoResult ==
    [op |-> "none", status |-> "none",
     bundle_id |-> NULL, reused |-> FALSE, ingest_failed |-> FALSE,
     metrics_ingested |-> 0, logs_processed |-> 0,
     unloaded |-> FALSE, active_cleared |-> FALSE,
     promoted_bundle_id |-> NULL, removed |-> 0,
     deleted_bundle_id |-> NULL]

\* active_context()['bundle_id']
active_context(ga) == get_global_active(ga)

\* What the try block of _load_bundle_impl (extract, discover, ingest) can do:
\* raise, or return the ingestion counts. The catalog only stores and returns
\* the counts, so each is either zero or its largest value.
\* the counts of a raising try block kept instead of left at zero
IngestOutcomes_counted ==
    {[raised |-> TRUE, metrics |-> MaxMetrics, logs |-> MaxLogs]} \cup
    {o \in [raised : {FALSE}, metrics : {0, MaxMetrics}, logs : {0, MaxLogs}] :
        o.logs = 0 => o.metrics = 0}

IngestOutcomes ==
    {[raised |-> TRUE, metrics |-> 0, logs |-> 0]} \cup
    {o \in [raised : {FALSE}, metrics : {0, MaxMetrics}, logs : {0, MaxLogs}] :
        o.logs = 0 => o.metrics = 0}

\* if existing and not force: set active and return the existing row
load_bundle_reuse(sptid, h) ==
    LET existing == get_bundle_by_hash(bundles, sptid, h) IN
    /\ existing # {}
    /\ LET e == CHOOSE r \in existing : TRUE IN
       /\ global_active' = set_global_active(global_active, e.bundle_id)
       /\ result' = [NoResult EXCEPT !.op = "load_bundle",
                        !.status = "returned", !.bundle_id = e.bundle_id,
                        !.reused = TRUE,
                        !.metrics_ingested = e.metrics_ingested,
                        !.logs_processed = e.logs_processed]
    /\ UNCHANGED <<bundles, next_uuid>>

\* set_global_active(bundle_id) and the provisional row of a fresh load
new_bundle_row(bundle_id, sptid, h) ==
    [bundle_id |-> bundle_id, sptid |-> sptid, bundle_hash |-> h,
     logs_processed |-> 0, metrics_ingested |-> 0, ingested |-> 0]

\* _load_bundle_impl from the new id on: set active, the outcome of
\* insert_bundle (ins), then extract + discover + ingest and the row update
load_bundle_ingest(sptid, h, outcome, deleted, ins) ==
    LET bundle_id == next_uuid
        call == [NoResult EXCEPT !.op = "load_bundle",
                                 !.deleted_bundle_id = deleted]
    IN
    /\ next_uuid <= MaxIds
    /\ next_uuid' = next_uuid + 1
    /\ global_active' = set_global_active(global_active, bundle_id)
    /\ IF ins.raised
       THEN \* IntegrityError escapes: insert_bundle is outside the try block
            /\ bundles' = ins.rows
            /\ result' = [call EXCEPT !.status = "raised"]
       ELSE /\ bundles' =
                IF outcome.raised THEN ins.rows
                ELSE {IF r.bundle_id = bundle_id
                      THEN [r EXCEPT !.logs_processed = outcome.logs,
                                     !.metrics_ingested = outcome.metrics,
                                     !.ingested = 1]
                      ELSE r : r \in ins.rows}
            /\ result' = [call EXCEPT !.status = "returned",
                             !.bundle_id = bundle_id, !.reused = FALSE,
                             !.ingest_failed = outcome.raised,
                             !.metrics_ingested = outcome.metrics,
                             !.logs_processed = outcome.logs]

\* a load that neither looks for the existing row's removal nor has the
\* unique constraint to stop it: the row is simply added
load_bundle_fresh_nodedup(sptid, h, force, outcome) ==
    /\ get_bundle_by_hash(bundles, sptid, h) = {} \/ force
    /\ load_bundle_ingest(sptid, h, outcome, NULL,
           [raised |-> FALSE,
            rows |-> bundles \cup {new_bundle_row(next_uuid, sptid, h)}])

\* the rest of _load_bundle_impl: (force-)delete the existing row, new id,
\* set active, insert the provisional row, ingest, update the row
load_bundle_fresh(sptid, h, force, outcome) ==
    LET existing == get_bundle_by_hash(bundles, sptid, h)
        deleted == IF existing # {} /\ force
                   THEN (CHOOSE r \in existing : TRUE).bundle_id
                   ELSE NULL
        rows1 == IF deleted # NULL THEN delete_bundle_row(bundles, deleted)
                 ELSE bundles
    IN
    /\ existing = {} \/ force
    /\ load_bundle_ingest(sptid, h, outcome, deleted,
           insert_bundle(rows1, new_bundle_row(next_uuid, sptid, h)))

load_bundle(sptid, h, force) ==
    \/ (~force /\ load_bundle_reuse(sptid, h))
    \/ \E outcome \in IngestOutcomes :
           load_bundle_fresh(sptid, h, force, outcome)

\* path is None or does not exist: ValueError('path not found')
load_bundle_bad_path ==
    /\ result' = [NoResult EXCEPT !.op = "load_bundle", !.status = "raised"]
    /\ UNCHANGED <<bundles, global_active, next_uuid>>

unload_purge_all ==
    /\ bundles' = {}
    /\ global_active' = {[g EXCEPT !.bundle_id = NULL] : g \in global_active}
    /\ result' = [NoResult EXCEPT !.op = "purge_all", !.status = "returned",
                     !.removed = Cardinality(bundles)]
    /\ UNCHANGED next_uuid

\* unload_bundle(bundle_id=arg) with purge_all false; arg may be NULL
\* (the best-effort removal of the extraction directory only touches the file
\* system, which is outside the catalog state)
unload_bundle(arg) ==
    LET bundle_id == IF arg = NULL THEN get_global_active(global_active)
                     ELSE arg
        call == [NoResult EXCEPT !.op = "unload_bundle"]
        row == get_bundle(bundles, bundle_id)
    IN
    IF bundle_id = NULL
    THEN /\ result' = [call EXCEPT !.status = "returned"]
         /\ UNCHANGED <<bundles, global_active, next_uuid>>
    ELSE IF row = {}
    THEN \* ValueError('bundle not found')
         /\ result' = [call EXCEPT !.status = "raised"]
         /\ UNCHANGED <<bundles, global_active, next_uuid>>
    ELSE LET t == CHOOSE r \in row : TRUE
             active_cleared == get_global_active(global_active) = t.bundle_id
             rows1 == delete_bundle_row(bundles, t.bundle_id)
             ga1 == IF active_cleared
                    THEN unload_global_active(global_active)
                    ELSE global_active
         IN
         \E picked \in (IF active_cleared THEN promote_candidates(ga1, rows1)
                        ELSE {NULL}) :
            /\ bundles' = rows1
            /\ global_active' = promote_random_bundle(ga1, picked)
            /\ next_uuid' = next_uuid
            /\ result' = [call EXCEPT !.status = "returned",
                             !.bundle_id = t.bundle_id, !.unloaded = TRUE,
                             !.active_cleared = active_cleared,
                             !.promoted_bundle_id = picked]

BundleInit ==
    /\ bundles = {}
    /\ global_active = {}
    /\ next_uuid = 1
    /\ result = NoResult

BundleNext ==
    \/ \E sptid \in Sptids, h \in Hashes, force \in BOOLEAN :
           load_bundle(sptid, h, force)
    \/ load_bundle_bad_path
    \/ \E arg \in BundleIds \cup {NULL} : unload_bundle(arg)
    \/ unload_purge_all

\* ------------------------------------------------------------------------
\* timescale/schema_spec.py and timescale/writer.py
\* ------------------------------------------------------------------------

\* Python None for optional values, and a present value
None == <<>>
Some(v) == <<v>>

\* labels.get(lbl) of a label the sample does not carry
NoLabel == "None"

\* SCHEMA_SPEC, in declaration order, cut down to two groups: CPU with an
\* aliased metric and a plain one, MEM without local labels.
SCHEMA_SPEC ==
    << [table |-> "ptops_cpu", category |-> "cpu", local_labels |-> <<"cpu_id">>,
        metrics |-> << [name |-> "cpu_utilization",
                        aliases |-> <<"cpu_utilization_percent", "utilization">>,
                        column |-> None],
                       [name |-> "cpu_idle_percent", aliases |-> <<>>,
                        column |-> None] >>],
       [table |-> "ptops_mem", category |-> "mem", local_labels |-> <<>>,
        metrics |-> << [name |-> "mem_free_percent", aliases |-> <<>>,
                        column |-> None] >>] >>

Range(f) == {f[i] : i \in DOMAIN f}

\* meta.column or mname
ColumnOf(meta) == IF meta.column # None THEN meta.column[1] ELSE meta.name

GroupColumns(grp) == {ColumnOf(m) : m \in Range(grp.metrics)}

\* the (group, metric) positions of SCHEMA_SPEC
SchemaEntries ==
    UNION {{<<g, m>> : m \in DOMAIN SCHEMA_SPEC[g].metrics} :
              g \in DOMAIN SCHEMA_SPEC}

\* _resolve_group_and_column: the first (group, metric) in declaration order
\* whose name or alias list matches
_resolve_group_and_column(metric_name) ==
    LET hits == {gm \in SchemaEntries :
                    LET meta == SCHEMA_SPEC[gm[1]].metrics[gm[2]] IN
                    \/ metric_name = meta.name
                    \/ metric_name \in Range(meta.aliases)}
    IN
    IF hits = {} THEN [found |-> FALSE]
    ELSE LET first == CHOOSE x \in hits : \A y \in hits :
                          x[1] < y[1] \/ (x[1] = y[1] /\ x[2] <= y[2])
             grp == SCHEMA_SPEC[first[1]]
             meta == grp.metrics[first[2]]
         IN [found |-> TRUE, grp |-> grp, column |-> ColumnOf(meta),
             is_alias |-> metric_name # meta.name]

\* datetime.fromtimestamp(ts_ms/1000.0, tz=utc).isoformat(): the instant at
\* microsecond resolution
IsoTs(ts_ms) == ts_ms * 1000

LabelGet(labels, lbl) == IF lbl \in DOMAIN labels THEN labels[lbl] ELSE NoLabel

\* key = (table, iso_ts, bundle_id, sptid, category, host, *local_labels)
RowKey(grp, sample) ==
    << grp.table, IsoTs(sample.ts_ms), LabelGet(sample.labels, "bundle_id"),
       LabelGet(sample.labels, "sptid"), grp.category,
       LabelGet(sample.labels, "host") >>
    \o [i \in 1..Len(grp.local_labels) |->
            LabelGet(sample.labels, grp.local_labels[i])]

\* History kept with a row for the coalescing properties; it never influences
\* the writer: per column the last canonical value and the first alias value
\* the row has received.
NoHist(grp) == [c \in GroupColumns(grp) |-> [canon |-> None, alias |-> None]]

HistAdd(hist, column, is_alias, value) ==
    IF is_alias
    THEN [hist EXCEPT ![column].alias = IF @ = None THEN Some(value) ELSE @]
    ELSE [hist EXCEPT ![column].canon = Some(value)]

\* TimescaleWriter.__init__
NewWriter(batch_size, connected, use_copy, adaptive) ==
    [batch_size |-> batch_size, use_copy |-> use_copy,
     pending |-> <<>>, last_key |-> None,
     total_rows_added |-> 0, total_flushes |-> 0, total_rows_flushed |-> 0,
     conn |-> connected,
     adaptive_enabled |-> adaptive, max_batch_size |-> MaxBatchCap,
     adaptive_upscales |-> 0, last_flush_rows |-> 0]

\* the cap left out
Min_first(a, b) == a

Min(a, b) == IF a <= b THEN a ELSE b

\* self.total_rows_flushed += len(rows), for every table of the batch and
\* before the table is written
FlushedAfter_twice(w, rows) == w.total_rows_flushed + 2 * Cardinality(rows)

FlushedAfter(w, rows) == w.total_rows_flushed + Cardinality(rows)

\* "except Exception" around the write and the commit of one table: a store
\* error of the table is caught there (and the transaction rolled back)
write_error_caught_never(table) == FALSE

write_error_caught(table) == TRUE

\* TimescaleWriter.flush; failing is the set of tables whose write raises in
\* the store.  st = [w |-> the writer, store |-> the committed rows,
\* raised |-> an exception has left the call].  An error that is not caught
\* leaves flush before the pending map is cleared.
flush(st, failing) ==
    LET w == st.w
        rows == Range(w.pending)
        \* self._conn.commit() per table; a failed table is rolled back
        committed == IF w.conn THEN {r \in rows : r.table \notin failing}
                     ELSE {}
        escaped == /\ w.conn
                   /\ \E r \in rows :
                         r.table \in failing /\ ~write_error_caught(r.table)
        flushed == FlushedAfter(w, rows)
        adapt == w.adaptive_enabled /\ ~w.use_copy
        rows_this_flush == flushed - w.last_flush_rows
        new_size == Min(w.batch_size * 2, w.max_batch_size)
        upscale == /\ adapt
                   /\ rows_this_flush >= w.batch_size
                   /\ w.batch_size < w.max_batch_size
                   /\ new_size # w.batch_size
    IN
    IF DOMAIN w.pending = {} THEN st
    ELSE IF escaped
    THEN [w |-> [w EXCEPT !.total_rows_flushed = flushed],
          store |-> st.store (+) SetToBag(committed),
          raised |-> TRUE]
    ELSE [w |-> [w EXCEPT !.total_rows_flushed = flushed,
                          !.total_flushes = @ + 1,
                          !.pending = <<>>,
                          !.last_key = None,
                          !.last_flush_rows = flushed,
                          !.batch_size = IF upscale THEN new_size ELSE @,
                          !.adaptive_upscales = IF upscale THEN @ + 1 ELSE @],
          store |-> st.store (+) SetToBag(committed),
          raised |-> FALSE]

\* the size test off by one: the map may grow past batch_size
AutoFlush_late(w, key) ==
    /\ key \notin DOMAIN w.pending
    /\ Cardinality(DOMAIN w.pending) > w.batch_size
    /\ w.last_key # Some(key)

\* the size test alone: a full pending map flushes whatever the key is
AutoFlush_full(w, key) ==
    /\ DOMAIN w.pending # {}
    /\ Cardinality(DOMAIN w.pending) >= w.batch_size

\* does add(sample) flush before it inserts?
AutoFlush(w, key) ==
    /\ key \notin DOMAIN w.pending
    /\ DOMAIN w.pending # {}
    /\ Cardinality(DOMAIN w.pending) >= w.batch_size
    /\ w.last_key # Some(key)

\* the alias test of add without the "column already has a value" part
AliasSkips_never(is_alias, current) == FALSE

\* the None test inverted
AliasSkips_inverted(is_alias, current) == is_alias /\ current = None

\* If alias and column already has a value, skip
AliasSkips(is_alias, current) == is_alias /\ current # None

\* TimescaleWriter.add
add(st, sample, failing) ==
    LET res == _resolve_group_and_column(sample.name) IN
    IF ~res.found THEN st
    ELSE
    LET grp == res.grp
        key == RowKey(grp, sample)
        st1 == IF AutoFlush(st.w, key) THEN flush(st, failing) ELSE st
    IN
    IF st1.raised THEN st1
    ELSE
    LET
        w1 == st1.w
        isnew == key \notin DOMAIN w1.pending
        base == [table |-> grp.table, key |-> key,
                 values |-> [c \in GroupColumns(grp) |-> None],
                 hist |-> NoHist(grp)]
        row == IF isnew THEN base ELSE w1.pending[key]
        skip == AliasSkips(res.is_alias, row.values[res.column])
        row2 == [row EXCEPT
                   !.values[res.column] = IF skip THEN @ ELSE Some(sample.value),
                   !.hist = HistAdd(@, res.column, res.is_alias, sample.value)]
        pend2 == [k \in DOMAIN w1.pending \cup {key} |->
                     IF k = key THEN row2 ELSE w1.pending[k]]
    IN [w |-> [w1 EXCEPT !.pending = pend2,
                         !.last_key = Some(key),
                         !.total_rows_added = IF isnew THEN @ + 1 ELSE @],
        store |-> st1.store,
        raised |-> FALSE]

\* ----- the writer driven by arbitrary add and flush calls -----

\* the names the parser emits for these groups, and one the schema lacks
SampleNames ==
    {"cpu_utilization", "cpu_utilization_percent", "cpu_idle_percent",
     "mem_free_percent", "not_in_schema"}

SampleLabels ==
    [bundle_id |-> "b-1", sptid |-> "s1", host |-> "h1", cpu_id |-> "cpu0"]

\* sample values and timestamps: payload the writer stores and never inspects
Values == {0, 1}

Timestamps == {1}

Samples ==
    [name : SampleNames, value : Values, ts_ms : Timestamps,
     labels : {SampleLabels}]

Tables == {SCHEMA_SPEC[g].table : g \in DOMAIN SCHEMA_SPEC}

St == [w |-> writer, store |-> store, raised |-> FALSE]

\* <<connected, use_copy, adaptive>>: DSN reachable or not, PTOPS_USE_COPY_COMMAND,
\* PTOPS_ADAPTIVE_BATCH
WriterConfigs ==
    {<<TRUE, FALSE, FALSE>>, <<TRUE, FALSE, TRUE>>, <<TRUE, TRUE, TRUE>>,
     <<FALSE, FALSE, FALSE>>}

\* the tables a flush of writer w writes
PendingTables(w) == {r.table : r \in Range(w.pending)}

\* the tables whose write can fail in a flush of writer w: there is no write
\* without a connection
FailableTables(w) == IF w.conn THEN PendingTables(w) ELSE {}

\* a writer as __init__ leaves it, connected or not
WriterInit ==
    /\ \E bs \in 1..MaxBatch, cfg \in WriterConfigs :
          writer = NewWriter(bs, cfg[1], cfg[2], cfg[3])
    /\ store = EmptyBag

\* the tables add(sample) writes to the store: those of its automatic flush
AddFlushTables(w, sample) ==
    LET res == _resolve_group_and_column(sample.name) IN
    IF res.found /\ AutoFlush(w, RowKey(res.grp, sample))
    THEN FailableTables(w) ELSE {}

\* writer.add(sample); the store fails the writes of the tables in failing
WAdd(sample, failing) ==
    LET st2 == add(St, sample, failing) IN
    \* bound of the model: at most MaxRows logical rows are ever started
    /\ st2.w.total_rows_added <= MaxRows
    /\ writer' = st2.w
    /\ store' = st2.store

\* writer.flush()
WFlush(failing) ==
    LET st2 == flush(St, failing) IN
    /\ writer' = st2.w
    /\ store' = st2.store

WriterNext ==
    \/ \E sample \in Samples :
           \E failing \in SUBSET AddFlushTables(writer, sample) :
              WAdd(sample, failing)
    \/ \E failing \in SUBSET FailableTables(writer) : WFlush(failing)

\* ------------------------------------------------------------------------
\* ingestion/ptops_ingest_parallel.py: ingest_ptop_logs_parallel
\* ------------------------------------------------------------------------

\* writer_lock: free, held by the worker of file f (1..NumFiles), or held by
\* the orchestrator
FREE == 0
MAIN == NumFiles + 1

\* labels of the samples as the parser yields them
ParserLabels == [cpu_id |-> "cpu0", host |-> "h1", source |-> "ptops"]

\* global_labels of the call (sptid given, host not given)
global_labels ==
    [bundle_id |-> "b-1", bundle_hash |-> "hash-1", source |-> "ptops",
     sptid |-> "s1"]

\* dict.update
Update(labels, extra) ==
    [k \in DOMAIN labels \cup DOMAIN extra |->
        IF k \in DOMAIN extra THEN extra[k] ELSE labels[k]]

ParsedSample(name, value, ts_ms) ==
    [name |-> name, value |-> value, ts_ms |-> ts_ms, labels |-> ParserLabels]

\* what iter_metric_samples yields for one CPU line (utilization, its legacy
\* alias with the same value, idle) and for one MEM line
CpuLine(ts) ==
    << ParsedSample("cpu_utilization", 1, ts),
       ParsedSample("cpu_utilization_percent", 1, ts),
       ParsedSample("cpu_idle_percent", 0, ts) >>

MemLine(ts) == << ParsedSample("mem_free_percent", 1, ts) >>

FileContents ==
    {<<>>} \cup {CpuLine(t) : t \in Timestamps}
           \cup {MemLine(t) : t \in Timestamps}
           \cup {CpuLine(t) \o MemLine(t) : t \in Timestamps}
           \cup {MemLine(0) \o MemLine(1)}

\* a log file: the samples its parser yields, whether the path is missing,
\* and after how many samples the iteration raises (None: it never does)
FileSpecs ==
    {[samples |-> c, missing |-> FALSE, raise_after |-> None] :
        c \in FileContents}
    \cup {[samples |-> <<>>, missing |-> TRUE, raise_after |-> None]}
    \cup {[samples |-> CpuLine(1), missing |-> FALSE, raise_after |-> Some(k)] :
             k \in 1..2}

NewTask ==
    [pc |-> "queued", pos |-> 0, batch |-> <<>>, idx |-> 0,
     local_metrics |-> 0, local_start_ts |-> None, local_end_ts |-> None,
     ret |-> None,
     \* the samples this worker has passed to vm.add, in the order of the calls
     added |-> <<>>]

NewOrch ==
    [pc |-> "collecting", collected |-> {}, total_metrics |-> 0,
     logs_processed |-> 0, global_start_ts |-> None, global_end_ts |-> None,
     ret |-> None]

Running(t) == {f \in DOMAIN t : t[f].pc \notin {"queued", "done"}}

TaskReturn(t, metrics, start_ts, end_ts) ==
    [t EXCEPT !.pc = "done",
              !.ret = Some([metrics |-> metrics, start_ts |-> start_ts,
                            end_ts |-> end_ts])]

\* the samples left in the batch after the loop thrown away
AfterLoop_drop(t) ==
    TaskReturn(t, t.local_metrics, t.local_start_ts, t.local_end_ts)

\* after the loop: "if batch:" sends the remaining samples, then the return
AfterLoop(t) ==
    IF t.batch # <<>> THEN [t EXCEPT !.pc = "last_handoff"]
    ELSE TaskReturn(t, t.local_metrics, t.local_start_ts, t.local_end_ts)

\* a pool thread takes the next submitted file; os.path.isfile(path)
W_start(f) ==
    /\ orch.pc = "collecting"
    /\ task[f].pc = "queued"
    /\ \A g \in DOMAIN task : g < f => task[g].pc # "queued"
    /\ Cardinality(Running(task)) < max_workers
    /\ task' = [task EXCEPT ![f] =
                   IF files[f].missing THEN TaskReturn(@, 0, None, None)
                   ELSE [@ EXCEPT !.pc = "parsing"]]
    /\ UNCHANGED <<files, max_workers, writer_lock, orch, writer, store>>

\* one turn of "for sample in parser.iter_metric_samples()": the iteration
\* raises, yields the next sample, or ends
W_next(f) ==
    LET t == task[f]
        n == Len(files[f].samples)
    IN
    /\ t.pc = "parsing"
    /\ task' = [task EXCEPT ![f] =
         IF files[f].raise_after = Some(t.pos)
         THEN \* except Exception: return 0, None, None, path, warnings
              TaskReturn(t, 0, None, None)
         ELSE IF t.pos < n
         THEN LET sample == [files[f].samples[t.pos + 1] EXCEPT
                                !.labels = Update(@, global_labels)]
                  batch == Append(t.batch, sample)
              IN [t EXCEPT
                    !.pos = @ + 1,
                    !.local_metrics = @ + 1,
                    !.local_start_ts =
                        IF @ = None \/ sample.ts_ms < @[1]
                        THEN Some(sample.ts_ms) ELSE @,
                    !.local_end_ts =
                        IF @ = None \/ sample.ts_ms > @[1]
                        THEN Some(sample.ts_ms) ELSE @,
                    !.batch = batch,
                    !.pc = IF Len(batch) >= WorkerBatch THEN "handoff"
                           ELSE "parsing"]
         ELSE AfterLoop(t)]
    /\ UNCHANGED <<files, max_workers, writer_lock, orch, writer, store>>

\* the lock taken without waiting for it to be free
W_acquire_nolock(f) ==
    /\ task[f].pc \in {"handoff", "last_handoff"}
    /\ writer_lock' = f
    /\ task' = [task EXCEPT ![f].pc = IF @ = "handoff" THEN "adding"
                                     ELSE "last_adding",
                            ![f].idx = 1]
    /\ UNCHANGED <<files, max_workers, orch, writer, store>>

\* with writer_lock:
W_acquire(f) ==
    /\ task[f].pc \in {"handoff", "last_handoff"}
    /\ writer_lock = FREE
    /\ writer_lock' = f
    /\ task' = [task EXCEPT ![f].pc = IF @ = "handoff" THEN "adding"
                                     ELSE "last_adding",
                            ![f].idx = 1]
    /\ UNCHANGED <<files, max_workers, orch, writer, store>>

\* for s in batch: vm.add(s); after the last one the lock is released and
\* the batch cleared
W_add(f) ==
    LET t == task[f]
        st2 == add(St, t.batch[t.idx], {})
        last == t.idx = Len(t.batch)
    IN
    /\ t.pc \in {"adding", "last_adding"}
    /\ writer' = st2.w
    /\ store' = st2.store
    /\ writer_lock' = IF last THEN FREE ELSE writer_lock
    /\ task' = [task EXCEPT ![f] =
         LET t1 == [t EXCEPT !.added = Append(@, t.batch[t.idx])] IN
         IF ~last THEN [t1 EXCEPT !.idx = @ + 1]
         ELSE IF t.pc = "adding"
         THEN [t1 EXCEPT !.pc = "parsing", !.batch = <<>>, !.idx = 0]
         ELSE TaskReturn([t1 EXCEPT !.idx = 0], t.local_metrics,
                         t.local_start_ts, t.local_end_ts)]
    /\ UNCHANGED <<files, max_workers, orch>>

\* Python truthiness of an Optional[int]: None and 0 are false
Truthy(opt) == opt # None /\ opt[1] # 0

\* for future in as_completed(...): the totals of one finished file
O_collect(f) ==
    /\ orch.pc = "collecting"
    /\ task[f].pc = "done"
    /\ f \notin orch.collected
    /\ LET r == task[f].ret[1] IN
       orch' = [orch EXCEPT
           !.collected = @ \cup {f},
           !.total_metrics = @ + r.metrics,
           !.logs_processed = @ + 1,
           !.global_start_ts =
               IF Truthy(r.start_ts) /\ (@ = None \/ r.start_ts[1] < @[1])
               THEN r.start_ts ELSE @,
           !.global_end_ts =
               IF Truthy(r.end_ts) /\ (@ = None \/ r.end_ts[1] > @[1])
               THEN r.end_ts ELSE @]
    /\ UNCHANGED <<files, max_workers, task, writer_lock, writer, store>>

\* the final flush taken up without waiting for the workers
O_acquire_early ==
    /\ orch.pc = "collecting"
    /\ DOMAIN files # {}
    /\ writer_lock = FREE
    /\ writer_lock' = MAIN
    /\ orch' = [orch EXCEPT !.pc = "flushing"]
    /\ UNCHANGED <<files, max_workers, task, writer, store>>

\* the executor has shut down; with writer_lock:
O_acquire ==
    /\ orch.pc = "collecting"
    /\ DOMAIN files # {}
    /\ orch.collected = DOMAIN files
    /\ writer_lock = FREE
    /\ writer_lock' = MAIN
    /\ orch' = [orch EXCEPT !.pc = "flushing"]
    /\ UNCHANGED <<files, max_workers, task, writer, store>>

\* vm.flush(), the lock released, the default timestamps, return
O_flush(now_ms) ==
    LET st2 == flush(St, {}) IN
    /\ orch.pc = "flushing"
    /\ writer' = st2.w
    /\ store' = st2.store
    /\ writer_lock' = FREE
    /\ orch' = [orch EXCEPT
          !.pc = "returned",
          !.ret = Some([metrics_ingested |-> orch.total_metrics,
                        logs_processed |-> orch.logs_processed,
                        start_ts |-> IF orch.global_start_ts = None
                                     THEN now_ms ELSE orch.global_start_ts[1],
                        end_ts |-> IF orch.global_end_ts = None
                                   THEN now_ms ELSE orch.global_end_ts[1]])]
    /\ UNCHANGED <<files, max_workers, task>>

\* if not log_paths: return 0, 0, now, now
O_return_empty(now_ms) ==
    /\ orch.pc = "collecting"
    /\ DOMAIN files = {}
    /\ orch' = [orch EXCEPT
          !.pc = "returned",
          !.ret = Some([metrics_ingested |-> 0, logs_processed |-> 0,
                        start_ts |-> now_ms, end_ts |-> now_ms])]
    /\ UNCHANGED <<files, max_workers, task, writer_lock, writer, store>>

\* the values int(time.time() * 1000) may take
NowValues == Timestamps \cup {2}

ParInit ==
    /\ \E n \in 0..NumFiles : files \in [1..n -> FileSpecs]
    /\ \/ /\ max_workers \in 1..NumFiles
          /\ orch = NewOrch
       \* ingest_ptop_logs_optimized falls back to ingest_ptop_logs
       \/ /\ max_workers = 1
          /\ orch = [NewOrch EXCEPT !.pc = "sequential"]
    /\ task = [f \in DOMAIN files |-> NewTask]
    /\ writer_lock = FREE
    /\ \E bs \in 1..MaxBatch : writer = NewWriter(bs, TRUE, FALSE, FALSE)
    /\ store = EmptyBag

ParNext ==
    \/ \E f \in DOMAIN files : W_start(f)
    \/ \E f \in DOMAIN files : W_next(f)
    \/ \E f \in DOMAIN files : W_acquire(f)
    \/ \E f \in DOMAIN files : W_add(f)
    \/ \E f \in DOMAIN files : O_collect(f)
    \/ O_acquire
    \/ \E now_ms \in NowValues : O_flush(now_ms)
    \/ \E now_ms \in NowValues : O_return_empty(now_ms)

\* ------------------------------------------------------------------------
\* ingestion/ptops_ingest.py: ingest_ptop_logs, its effect on the writer
\* ------------------------------------------------------------------------

\* the samples of a file that reach writer.add: none for a missing path, the
\* ones yielded before the iteration raises, or all of them
SamplesAdded(file) ==
    IF file.missing THEN <<>>
    ELSE IF file.raise_after # None
    THEN SubSeq(file.samples, 1, file.raise_after[1])
    ELSE file.samples

RECURSIVE AddEach(_, _)
AddEach(st, samples) ==
    IF samples = <<>> THEN st
    ELSE AddEach(add(st, [Head(samples) EXCEPT
                             !.labels = Update(@, global_labels)], {}),
                 Tail(samples))

RECURSIVE AddFiles(_, _)
AddFiles(st, fs) ==
    IF fs = <<>> THEN st
    ELSE AddFiles(AddEach(st, SamplesAdded(Head(fs))), Tail(fs))

ingest_ptop_logs(st, fs) == flush(AddFiles(st, fs), {})

\* min and max of a non-empty set of integers
SetMin(S) == CHOOSE x \in S : \A y \in S : x <= y

SetMax(S) == CHOOSE x \in S : \A y \in S : x >= y

\* the counters of ingest_ptop_logs after the loop body of one file: every
\* yielded sample is counted and timed before it is added; logs_processed
\* counts the files whose loop ended without an exception
SeqFile(acc, file) ==
    LET yielded == SamplesAdded(file)
        ts == {yielded[i].ts_ms : i \in DOMAIN yielded}
        completed == ~file.missing /\ file.raise_after = None
    IN [metrics |-> acc.metrics + Len(yielded),
        logs_processed |-> acc.logs_processed + (IF completed THEN 1 ELSE 0),
        start_ts |-> IF ts = {} THEN acc.start_ts
                     ELSE IF acc.start_ts = None THEN Some(SetMin(ts))
                     ELSE Some(SetMin(ts \cup {acc.start_ts[1]})),
        end_ts |-> IF ts = {} THEN acc.end_ts
                   ELSE IF acc.end_ts = None THEN Some(SetMax(ts))
                   ELSE Some(SetMax(ts \cup {acc.end_ts[1]}))]

RECURSIVE SeqFiles(_, _)
SeqFiles(acc, fs) ==
    IF fs = <<>> THEN acc ELSE SeqFiles(SeqFile(acc, Head(fs)), Tail(fs))

\* return metrics, logs_processed, start_ts, end_ts
ingest_ptop_logs_return(fs, now_ms) ==
    LET acc == SeqFiles([metrics |-> 0, logs_processed |-> 0,
                         start_ts |-> None, end_ts |-> None], fs)
    IN [metrics_ingested |-> acc.metrics,
        logs_processed |-> acc.logs_processed,
        start_ts |-> IF acc.start_ts = None THEN now_ms ELSE acc.start_ts[1],
        end_ts |-> IF acc.end_ts = None THEN now_ms ELSE acc.end_ts[1]]

\* one call of ingest_ptop_logs: a single thread, no lock
O_sequential(now_ms) ==
    LET st2 == ingest_ptop_logs(St, files) IN
    /\ orch.pc = "sequential"
    /\ writer' = st2.w
    /\ store' = st2.store
    /\ orch' = [orch EXCEPT
          !.pc = "returned_sequential",
          !.ret = Some(ingest_ptop_logs_return(files, now_ms))]
    /\ UNCHANGED <<files, max_workers, task, writer_lock>>

SeqNext == \E now_ms \in NowValues : O_sequential(now_ms)

\* ------------------------------------------------------------------------
\* PTOPSParser (ingestion/parser.py)
\* ------------------------------------------------------------------------
\* A line is its tokens (line.split()), the white space that follows the
\* first token (sep: a space or a tab; the other gaps are single spaces);
\* no line ends with white space.  The forms whose prefix no
\* line below carries ("CPU:", SMAPS, MEM, DISK, NET, TOP, DBWR, DBWA, DBRD,
\* DBMPOOL, FPPORTS, FPMBUF, TCP_DCA_STAT, FPC) cannot match these lines and
\* are left out.
Line(toks, sep) == [toks |-> toks, sep |-> sep]

\* str.isdigit(): the digit-only tokens of the lines below, in the order of
\* their values
Numerals == <<"0", "1", "2", "3", "4", "5", "6", "7", "8", "9", "10">>

\* the 10-digit epoch tokens (\d{10}), in the order of their values
Epochs == <<"0000000000", "0000000001", "0000000002">>

\* tokens of [0-9.]+ that float() rejects
BadNumbers == {"1.2.3"}

isdigit(tok) == tok \in Range(Numerals)

\* val.replace('.', '', 1).isdigit(): a digit-only token, or one with a
\* single dot; "1.2.3" keeps a dot after the replacement
replace_dot_isdigit(tok) == isdigit(tok)

\* the regex class [0-9.]+
NumLike(tok) == isdigit(tok) \/ tok \in BadNumbers

\* float(tok) raises ValueError
float_raises(tok) == ~isdigit(tok)

\* float(tok) / int(tok) of a digit-only token
float(tok) == (CHOOSE i \in DOMAIN Numerals : Numerals[i] = tok) - 1

\* int(epoch_s) of a 10-digit token
int_epoch(tok) == (CHOOSE i \in DOMAIN Epochs : Epochs[i] = tok) - 1

\* a Python dict with insertion order: a sequence of <<key, value>>
Has(d, k) == \E i \in DOMAIN d : d[i][1] = k

Get(d, k) == d[CHOOSE i \in DOMAIN d : d[i][1] = k][2]

Put(d, k, v) ==
    IF Has(d, k)
    THEN [i \in DOMAIN d |-> IF d[i][1] = k THEN <<k, v>> ELSE d[i]]
    ELSE Append(d, <<k, v>>)

\* {**base, **extra}
RECURSIVE Merge(_, _)
Merge(base, extra) ==
    IF extra = <<>> THEN base
    ELSE Merge(Put(base, extra[1][1], extra[1][2]), Tail(extra))

\* line.startswith(prefix + ' ')
StartsWith(line, prefix) ==
    Len(line.toks) > 1 /\ line.toks[1] = prefix /\ line.sep = " "

\* ' tok ' in line, for a token that is not the first one
ContainsToken(line, tok) ==
    \E i \in 2..(Len(line.toks) - 1) :
        line.toks[i] = tok /\ (i = 2 => line.sep = " ")

\* ' irq h/s ' in line
ContainsIrq(line) ==
    \E i \in 2..(Len(line.toks) - 2) :
        /\ line.toks[i] = "irq" /\ line.toks[i + 1] = "h/s"
        /\ (i = 2 => line.sep = " ")

\* all(NumLike) over the tokens at the given positions
AllNumLike(toks, positions) == \A i \in positions : NumLike(toks[i])

\* TIME_FULL_RE: TIME <uptime> <epoch 10 digits> <date> <time>
Dates == {"2023-11-14"}
Clocks == {"22:13:20"}

TIME_FULL_RE(line) ==
    /\ Len(line.toks) >= 5 /\ line.toks[1] = "TIME"
    /\ isdigit(line.toks[2])
    /\ line.toks[3] \in Range(Epochs)
    /\ line.toks[4] \in Dates /\ line.toks[5] \in Clocks

\* TIME_FALLBACK_RE: TIME <digits> <epoch 10 digits>
TIME_FALLBACK_RE(line) ==
    /\ Len(line.toks) >= 3 /\ line.toks[1] = "TIME"
    /\ isdigit(line.toks[2])
    /\ line.toks[3] \in Range(Epochs)

\* IDENT_RE: IDENT host <host> host_id <host_id> ver <ver>
IDENT_RE(line) ==
    /\ Len(line.toks) >= 7 /\ line.toks[1] = "IDENT"
    /\ line.toks[2] = "host" /\ line.toks[4] = "host_id" /\ line.toks[6] = "ver"

\* IDENT_SIMPLE_RE: IDENT <version> <host_id>, nothing after it
IDENT_SIMPLE_RE(line) ==
    Len(line.toks) = 3 /\ line.toks[1] = "IDENT"

\* CPU_RE: the full CPU shape; the gap in "irq h/s" is one space
CpuIds == {"cpu", "cpu0"}

CPU_RE(line) ==
    /\ Len(line.toks) >= 15 /\ line.toks[1] = "CPU"
    /\ line.toks[2] \in CpuIds /\ line.toks[3] = "u"
    /\ line.toks[5] = "id/io" /\ line.toks[8] = "u/s/n"
    /\ line.toks[12] = "irq" /\ line.toks[13] = "h/s"
    /\ AllNumLike(line.toks, {4, 6, 7, 9, 10, 11, 14, 15})


\* what one record form does with a line: it does not match (the next form
\* is tried), it yields a record, or an exception leaves the generator
NoMatch == [t |-> "nomatch"]

Yield(prefix, fields) == [t |-> "yield", prefix |-> prefix, fields |-> fields]

Raise(error) == [t |-> "raise", error |-> error]

\* the minimal CPU form: util is the 4th token and idle the 5th
MinimalCpu(line) ==
    LET toks == line.toks
    IN  IF /\ StartsWith(line, "CPU") /\ ContainsIrq(line)
           /\ ContainsToken(line, "u") /\ ContainsToken(line, "id/io")
           /\ Len(toks) >= 6
           /\ ~float_raises(toks[4])
        THEN Yield("CPU", << <<"cpu_id", toks[2]>>,
                             <<"utilization", float(toks[4])>>,
                             <<"idle_percent",
                               IF replace_dot_isdigit(toks[5])
                               THEN float(toks[5]) ELSE 0>> >>)
        ELSE NoMatch

\* float(m.group(k)) for every group, outside any try
AnyFloatRaises(toks, positions) == \E i \in positions : float_raises(toks[i])

FullCpu(line) ==
    LET toks == line.toks
    IN  IF ~CPU_RE(line) THEN NoMatch
        ELSE IF AnyFloatRaises(toks, {4, 6, 7, 9, 10, 11, 14, 15})
        THEN Raise("ValueError")
        ELSE Yield("CPU", << <<"cpu_id", toks[2]>>,
                             <<"utilization", float(toks[4])>>,
                             <<"idle_percent", float(toks[6])>>,
                             <<"iowait_percent", float(toks[7])>>,
                             <<"user_percent", float(toks[9])>>,
                             <<"system_percent", float(toks[10])>>,
                             <<"nice_percent", float(toks[11])>>,
                             <<"hardirq_percent", float(toks[14])>>,
                             <<"softirq_percent", float(toks[15])>> >>)

\* the key / value pairs at positions j, j+2, ... (those whose value exists)
RECURSIVE Pairs(_, _)
Pairs(toks, j) ==
    IF j + 1 > Len(toks) THEN <<>>
    ELSE <<<<toks[j], toks[j + 1]>>>> \o Pairs(toks, j + 2)

\* str.isalpha() of the tokens of the lines below
isalpha(tok) == tok \in {"TLS", "rx", "tx", "dp", "qd", "iod", "mhb", "host"}

StatKeys == {"rx", "tx", "dp", "qd"}

\* the while loop of the DOT_STAT / DOH_STAT form, from position i
RECURSIVE StatKv(_, _, _)
StatKv(toks, i, kv) ==
    IF i >= Len(toks) THEN kv
    ELSE IF toks[i] \in StatKeys
    THEN StatKv(toks, i + 2,
                IF float_raises(toks[i + 1]) THEN kv
                ELSE Put(kv, toks[i], float(toks[i + 1])))
    ELSE StatKv(toks, i + 1, kv)

\* DOT_STAT / DOH_STAT <index> <addr> [protocol] <key> <value> ...:
\* tokens[1] and tokens[2] are read without a length test
DotDohStat(line) ==
    LET toks == line.toks
        start_idx == IF toks[1] = "DOT_STAT" /\ 4 <= Len(toks)
                        /\ isalpha(toks[4]) /\ toks[4] \notin StatKeys
                     THEN 5 ELSE 4
    IN  IF ~(StartsWith(line, "DOT_STAT") \/ StartsWith(line, "DOH_STAT"))
        THEN NoMatch
        ELSE IF Len(toks) < 3 THEN Raise("IndexError")
        ELSE Yield(toks[1],
                   Merge(<< <<"index", toks[2]>>, <<"addr", toks[3]>> >>,
                         StatKv(toks, start_idx, <<>>)))

\* FPP <total_cycles> <total_packets>
Fpp(line) ==
    LET toks == line.toks
    IN  IF /\ StartsWith(line, "FPP") /\ Len(toks) >= 3
           /\ ~float_raises(toks[2]) /\ ~float_raises(toks[3])
        THEN Yield("FPP", << <<"total_cycles", float(toks[2])>>,
                             <<"total_packets", float(toks[3])>>,
                             <<"cycles_per_packet",
                               IF float(toks[3]) > 0
                               THEN float(toks[2]) \div float(toks[3])
                               ELSE 0>> >>)
        ELSE NoMatch

\* tokens.index(tok)
IndexOf(toks, tok) == CHOOSE i \in DOMAIN toks :
                          toks[i] = tok /\ \A j \in 1..(i - 1) : toks[j] # tok

\* FPS iod <incoming> <outgoing> <dropped> mhb <missed> <hit> <bypass>
Fps(line) ==
    LET toks == line.toks
        iod == IndexOf(toks, "iod")
        mhb == IndexOf(toks, "mhb")
    IN  IF /\ StartsWith(line, "FPS") /\ Len(toks) >= 8
           /\ "iod" \in Range(toks) /\ "mhb" \in Range(toks)
           /\ iod + 3 <= Len(toks) /\ mhb + 3 <= Len(toks)
           /\ ~AnyFloatRaises(toks, (iod + 1)..(iod + 3) \cup (mhb + 1)..(mhb + 3))
        THEN Yield("FPS", << <<"incoming_dns_packets", float(toks[iod + 1])>>,
                             <<"outgoing_dns_packets", float(toks[iod + 2])>>,
                             <<"dropped_dns_packets", float(toks[iod + 3])>>,
                             <<"missed_dns_packets", float(toks[mhb + 1])>>,
                             <<"hit_dns_packets", float(toks[mhb + 2])>>,
                             <<"bypass_dns_packets", float(toks[mhb + 3])>> >>)
        ELSE NoMatch

\* the FPVLSTATS key mapping (after '-' is replaced by '_')
FpvlMapping == << <<"F-P", "fpvl_f_pending">>, <<"F-W", "fpvl_f_working">>,
                  <<"F-B", "fpvl_f_blocked">>, <<"F-BA", "fpvl_f_blocked_async">>,
                  <<"N-P", "fpvl_n_pending">>, <<"N-W", "fpvl_n_working">>,
                  <<"N-B", "fpvl_n_blocked">>, <<"N-R", "fpvl_n_running">>,
                  <<"N-BA", "fpvl_n_blocked_async">>, <<"N-DD", "fpvl_n_dropped">>,
                  <<"T-F", "fpvl_total_fast">>, <<"T-B", "fpvl_total_blocked">> >>

RECURSIVE FpvlKv(_, _)
FpvlKv(pairs, kv) ==
    IF pairs = <<>> THEN kv
    ELSE FpvlKv(Tail(pairs),
                IF Has(FpvlMapping, Head(pairs)[1])
                   /\ replace_dot_isdigit(Head(pairs)[2])
                THEN Put(kv, Get(FpvlMapping, Head(pairs)[1]),
                         float(Head(pairs)[2]))
                ELSE kv)

\* FPVLSTATS <key> <value> ...: a record only when a key is mapped
Fpvlstats(line) ==
    LET kv == FpvlKv(Pairs(line.toks, 2), <<>>)
    IN  IF StartsWith(line, "FPVLSTATS") /\ kv # <<>>
        THEN Yield("FPVLSTATS", kv)
        ELSE NoMatch

\* the record forms in the order iter_records tries them
NumForms == 6

Form(k, line) ==
    CASE k = 1 -> MinimalCpu(line)
      [] k = 2 -> FullCpu(line)
      [] k = 3 -> DotDohStat(line)
      [] k = 4 -> Fpp(line)
      [] k = 5 -> Fps(line)
      [] k = 6 -> Fpvlstats(line)

\* the first form, from k on, that does something with the line
RECURSIVE TryForms(_, _)
TryForms(k, line) ==
    IF k > NumForms THEN NoMatch
    ELSE LET r == Form(k, line)
         IN  IF r.t # "nomatch" THEN r ELSE TryForms(k + 1, line)

\* int(epoch_s) * 1000
TsOfEpoch(tok) == int_epoch(tok) * 1000

\* a TIME line that matches neither form is no anchor
TimeAnchor_reset(ts, line) ==
    IF TIME_FULL_RE(line) \/ TIME_FALLBACK_RE(line)
    THEN Some(TsOfEpoch(line.toks[3]))
    ELSE IF Len(line.toks) >= 1 /\ line.toks[1] = "TIME" THEN None
    ELSE ts
TimeAnchor(ts, line) ==
    IF TIME_FULL_RE(line) \/ TIME_FALLBACK_RE(line)
    THEN Some(TsOfEpoch(line.toks[3]))
    ELSE ts

\* self._global_labels after the line
LabelsAfter(labels, line) ==
    IF TIME_FULL_RE(line)
    THEN Merge(labels, << <<"uptime_seconds", line.toks[2]>>,
                          <<"date", line.toks[4]>>, <<"time", line.toks[5]>> >>)
    ELSE IF TIME_FALLBACK_RE(line) THEN labels
    ELSE IF IDENT_RE(line)
    THEN Merge(labels, << <<"host", line.toks[3]>>,
                          <<"host_id", line.toks[5]>>,
                          <<"ptop_version", line.toks[7]>> >>)
    ELSE IF IDENT_SIMPLE_RE(line)
    THEN Merge(IF Has(labels, "host") THEN labels
               ELSE Put(labels, "host", line.toks[3]),
               << <<"host_id", line.toks[3]>>,
                  <<"ptop_version", line.toks[2]>> >>)
    ELSE labels

IsAnchorOrIdent(line) ==
    \/ TIME_FULL_RE(line) \/ TIME_FALLBACK_RE(line)
    \/ IDENT_RE(line) \/ IDENT_SIMPLE_RE(line)

\* one turn of "for raw in f": the new anchor and labels, and what the
\* record forms do with the line (nothing before the first anchor)
ParseLine(ts, labels, line) ==
    [ts |-> TimeAnchor(ts, line),
     labels |-> LabelsAfter(labels, line),
     form |-> IF IsAnchorOrIdent(line) \/ ts = None THEN NoMatch
              ELSE TryForms(1, line)]

\* ParsedRecord; line is the position of the raw line in the file
ParsedRecord(prefix, fields, n, ts_ms) ==
    [prefix |-> prefix, fields |-> fields, line |-> n, ts_ms |-> ts_ms]

_metric_category(prefix) ==
    IF prefix \in {"CPU", "MEM", "DISK", "TOP", "SMAPS"} THEN prefix
    ELSE IF prefix \in {"NET_RATE", "NET_IF", "NET"} THEN "NET"
    ELSE IF prefix \in {"DBWR", "DBWA", "DBRD", "DBMPOOL"} THEN "DB"
    ELSE IF prefix \in {"FPPORTS", "FPMBUF", "FPC", "FPP", "FPS", "DOT_STAT",
                        "DOH_STAT", "TCP_DCA_STAT", "FPVLSTATS"}
    THEN "FASTPATH"
    ELSE "OTHER"

_cpu_metric(field) ==
    CASE field = "utilization" -> "cpu_utilization"
      [] OTHER -> "cpu_" \o field

\* MetricSample; labels is the set of the dict's items
MetricSample(name, value, ts_ms, labels) ==
    [name |-> name, value |-> value, ts_ms |-> ts_ms, labels |-> Range(labels)]

\* the samples of "for k, v in rec.fields.items()" with one name per field
RECURSIVE FieldSamples(_, _, _, _, _)
FieldSamples(fields, skip, naming, ts_ms, labels) ==
    IF fields = <<>> THEN <<>>
    ELSE LET k == Head(fields)[1]
             v == Head(fields)[2]
             name == CASE naming = "cpu" -> _cpu_metric(k)
                       [] naming = "dot" -> "dot_" \o k \o "_total"
                       [] naming = "doh" -> "doh_" \o k \o "_total"
             here == IF k \in skip THEN <<>>
                     ELSE IF name = "cpu_utilization"
                     THEN << MetricSample(name, v, ts_ms, labels),
                             MetricSample("cpu_utilization_percent", v, ts_ms,
                                          labels) >>
                     ELSE << MetricSample(name, v, ts_ms, labels) >>
         IN  here \o FieldSamples(Tail(fields), skip, naming, ts_ms, labels)

\* the body of "for rec in self.iter_records()" in iter_metric_samples
SamplesOfRecord(rec, allowed_categories, labels) ==
    LET cat == _metric_category(rec.prefix)
        common == << <<"source", "ptops">>, <<"metric_category", cat>> >>
        f == rec.fields
    IN  IF allowed_categories # None /\ allowed_categories[1] # {}
           /\ cat \notin allowed_categories[1] THEN <<>>
        ELSE IF rec.prefix = "CPU"
        THEN FieldSamples(f, {"cpu_id"}, "cpu", rec.ts_ms,
                 Merge(<< <<"record_type", "CPU">>,
                          <<"cpu_id", Get(f, "cpu_id")>>,
                          <<"cpu", Get(f, "cpu_id")>> >> \o common, labels))
        ELSE IF rec.prefix \in {"DOT_STAT", "DOH_STAT"}
        THEN FieldSamples(f, {"addr", "index"},
                 IF rec.prefix = "DOT_STAT" THEN "dot" ELSE "doh", rec.ts_ms,
                 Merge(<< <<"record_type", rec.prefix>>,
                          <<"addr", Get(f, "addr")>>,
                          <<"index", Get(f, "index")>> >> \o common, labels))
        ELSE <<>>

\* one iteration of the generator from line n on: the records yielded, the
\* samples made of them (iter_metric_samples only), the labels left on the
\* instance and whether an exception ended the iteration
RECURSIVE Iterate(_, _, _, _, _, _)
Iterate(log, n, ts, acc, allowed_categories, expand) ==
    IF n > Len(log) THEN acc
    ELSE LET p == ParseLine(ts, acc.labels, log[n])
             rec == ParsedRecord(p.form.prefix, p.form.fields, n, p.ts[1])
         IN  IF p.form.t = "raise"
             THEN [acc EXCEPT !.labels = p.labels, !.raised = TRUE]
             ELSE IF p.form.t = "yield"
             THEN Iterate(log, n + 1, p.ts,
                      [acc EXCEPT
                         !.labels = p.labels,
                         !.records = Append(@, rec),
                         !.samples = IF expand
                                     THEN @ \o SamplesOfRecord(rec,
                                              allowed_categories, p.labels)
                                     ELSE @],
                      allowed_categories, expand)
             ELSE Iterate(log, n + 1, p.ts, [acc EXCEPT !.labels = p.labels],
                          allowed_categories, expand)

iter_records(log, labels) ==
    Iterate(log, 1, None,
            [labels |-> labels, records |-> <<>>, samples |-> <<>>,
             raised |-> FALSE], None, FALSE)

iter_metric_samples(log, labels, allowed_categories) ==
    Iterate(log, 1, None,
            [labels |-> labels, records |-> <<>>, samples |-> <<>>,
             raised |-> FALSE], allowed_categories, TRUE)

\* the lines a log file is made of
CpuToks(util) == <<"CPU", "cpu0", "u", util, "id/io", "8", "1", "u/s/n", "2",
                   "3", "0", "irq", "h/s", "4", "6">>

Lines ==
    { Line(<<"TIME", "1", "0000000001", "2023-11-14", "22:13:20">>, " "),
      Line(<<"TIME", "1", "0000000002">>, " "),
      Line(<<"TIME", "1", "5">>, " "),
      Line(<<"IDENT", "host", "h1", "host_id", "i1", "ver", "v1">>, " "),
      Line(<<"IDENT", "v2", "i2">>, " "),
      Line(CpuToks("5"), " "),
      Line(CpuToks("5"), "\t"),
      Line(CpuToks("1.2.3"), " "),
      Line(<<"DOT_STAT", "1", "10.0.0.1", "TLS", "rx", "5">>, " "),
      Line(<<"DOT_STAT", "1">>, " "),
      Line(<<"FPP", "10", "5">>, " "),
      Line(<<"FPP", "10", "0">>, " "),
      Line(<<"FPS", "iod", "1", "2", "3", "mhb", "4", "5", "6">>, " "),
      Line(<<"FPVLSTATS", "F-P", "1", "F-W", "2">>, " ") }

Logs == UNION {[1..n -> Lines] : n \in 1..MaxLines}

\* PTOPSParser(log_path, allowed_categories)
NewParser(log, allowed_categories) ==
    [log |-> log, _allowed_categories |-> allowed_categories,
     _global_labels |-> <<>>, last |-> None]

AllowedCategories == {None, Some({"CPU"})}

ParserInit == parser \in {NewParser(log, a) : log \in Logs, a \in AllowedCategories}

\* list(parser.iter_records())
P_iter_records ==
    LET r == iter_records(parser.log, parser._global_labels)
    IN  parser' = [parser EXCEPT
                     !._global_labels = r.labels,
                     !.last = Some([op |-> "iter_records",
                                    records |-> r.records, samples |-> <<>>,
                                    raised |-> r.raised])]

\* list(parser.iter_metric_samples())
P_iter_metric_samples ==
    LET r == iter_metric_samples(parser.log, parser._global_labels,
                                 parser._allowed_categories)
    IN  parser' = [parser EXCEPT
                     !._global_labels = r.labels,
                     !.last = Some([op |-> "iter_metric_samples",
                                    records |-> r.records,
                                    samples |-> r.samples,
                                    raised |-> r.raised])]

ParserNext == P_iter_records \/ P_iter_metric_samples

\* ------------------------------------------------------------------------
\* The SQL gateway: timescale_sql (mcp_app.py)
\* ------------------------------------------------------------------------
\* The text of a query is a sequence of pieces joined by one space (nothing
\* follows the new line that ends a line comment): leading comments, a first
\* word, and the pieces of a body.
BlockComment == "/* c */"

LineComment == "-- c\n"

CommentRuns ==
    { <<>>, <<BlockComment>>, <<LineComment>>,
      <<BlockComment, BlockComment>>, <<BlockComment, LineComment>>,
      <<LineComment, BlockComment>>, <<LineComment, LineComment>> }

FirstWords == {"select", "SELECT", "with", "delete", "explain", "("}

DmlCte == "d as (delete from t returning *) select * from d"

LimitClauses == {"limit 1", "\nlimit 1"}

SelectLists == {"* from t", "' limit ' as x from t"}

BodyPieces == SelectLists \cup LimitClauses \cup {DmlCte, ";", ";;"}

Bodies == UNION {[1..n -> BodyPieces] : n \in 0..MaxBody}

Queries ==
    {<<>>} \cup {c \o <<w>> \o b : c \in CommentRuns, w \in FirstWords, b \in Bodies}

\* the rows of table t the connection sees, and the rows committed
DbRows == {0, 1, 3}

\* max_rows of a call
MaxRowsArgs == {1, 2}

\* re.match(r"^(\s*/\*.*?\*/\s*)", tmp): the leading block comments go
RECURSIVE StripBlockComments(_)
StripBlockComments(tmp) ==
    IF tmp # <<>> /\ Head(tmp) = BlockComment
    THEN StripBlockComments(Tail(tmp)) ELSE tmp

\* re.match(r"^(\s*--[^\n]*\n)", tmp): then the leading line comments
RECURSIVE StripLineComments(_)
StripLineComments(tmp) ==
    IF tmp # <<>> /\ Head(tmp) = LineComment
    THEN StripLineComments(Tail(tmp)) ELSE tmp

\* re.match(r"^([a-zA-Z]+)", tmp).group(1).lower(), None without a match:
\* white space is left in front of the word when a line comment was
\* stripped after a block comment was not, and "(" is no letter
first_kw(q) ==
    LET tmp == StripLineComments(StripBlockComments(q))
    IN  IF tmp = <<>> \/ Head(tmp) \in {BlockComment, LineComment, "("}
        THEN None
        ELSE Some(IF Head(tmp) = "SELECT" THEN "select" ELSE Head(tmp))

disallowed == {"update", "delete", "insert", "merge", "alter", "create", "drop",
               "truncate", "grant", "revoke", "vacuum", "analyze", "call"}

\* the leading keywords the gateway lets through
allowed_first_kw_any == {"select", "with", "explain"}
allowed_first_kw == {"select", "with"}

\* q.rstrip(';'): the semicolons at the very end of the text
rstrip_semicolons(q) ==
    IF q # <<>> /\ q[Len(q)] \in {";", ";;"} THEN SubSeq(q, 1, Len(q) - 1) ELSE q

\* ';' in core
HasSemicolon(core) == \E i \in DOMAIN core : core[i] \in {";", ";;"}

\* ' limit ' not in sql.lower(): a piece after the first one has a space in
\* front of it
enforce_limit(sql) ==
    ~\E i \in DOMAIN sql : sql[i] \in {"limit 1", "' limit ' as x from t"}

\* the statement the store receives
Wrapped(core, n) == [core |-> core, limit |-> Some(n)]

Unwrapped(core) == [core |-> core, limit |-> None]

\* PostgreSQL: the statement without its comments
RECURSIVE Uncommented(_)
Uncommented(core) ==
    IF core = <<>> THEN <<>>
    ELSE IF Head(core) \in {BlockComment, LineComment}
    THEN Uncommented(Tail(core))
    ELSE <<Head(core)>> \o Uncommented(Tail(core))

\* PostgreSQL: a select list or a data-modifying CTE, then at most one
\* LIMIT clause; a data-modifying WITH must be the top level of the statement
StoreAccepts(stmt) ==
    LET c == Uncommented(stmt.core)
    IN  /\ Len(c) \in {2, 3}
        /\ \/ c[1] \in {"select", "SELECT"} /\ c[2] \in SelectLists
           \/ c[1] = "with" /\ c[2] = DmlCte /\ stmt.limit = None
        /\ Len(c) = 3 => c[3] \in LimitClauses

StoreModifies(stmt) == DmlCte \in Range(stmt.core)

\* cur.execute(wrapped); cur.fetchall(): the rows returned and the rows of
\* t afterwards (the DELETE returns the rows it removes)
Min3(a, b, c) == Min(a, Min(b, c))

Execute(stmt, rows) ==
    LET own == IF \E i \in DOMAIN stmt.core : stmt.core[i] \in LimitClauses
               THEN 1 ELSE rows
        cap == IF stmt.limit = None THEN rows ELSE stmt.limit[1]
    IN  [row_count |-> Min3(rows, own, cap),
         rows |-> IF StoreModifies(stmt) THEN 0 ELSE rows]

\* the dict timescale_sql returns
SqlError(error) == [error |-> Some(error), row_count |-> 0, truncated |-> FALSE]

SqlRows(row_count, truncated) ==
    [error |-> None, row_count |-> row_count, truncated |-> truncated]

\* timescale_sql(sql, max_rows) on the gateway g: what it returns, the
\* statement it sent to the store (None when it sent nothing) and the store
\* afterwards; an exception of the store rolls the transaction back
timescale_sql(g, sql, max_rows) ==
    LET q == sql
        kw == first_kw(q)
        core == rstrip_semicolons(q)
        stmt == IF enforce_limit(sql) THEN Wrapped(core, max_rows)
                ELSE Unwrapped(core)
        x == Execute(stmt, g.rows)
        Reject(error) == [ret |-> SqlError(error), executed |-> None,
                          rows |-> g.rows]
    IN  IF q = <<>> THEN Reject("empty_query")
        ELSE IF kw = None THEN Reject("parse_error")
        ELSE IF kw[1] \in disallowed THEN Reject("only_select_allowed")
        ELSE IF kw[1] \notin allowed_first_kw THEN Reject("only_select_allowed")
        ELSE IF HasSemicolon(core) THEN Reject("multiple_statements_disallowed")
        ELSE IF ~g.dsn THEN Reject("no_dsn")
        ELSE IF ~StoreAccepts(stmt)
        THEN [ret |-> SqlError("SyntaxError"), executed |-> Some(stmt),
              rows |-> g.committed]
        ELSE [ret |-> SqlRows(x.row_count,
                              enforce_limit(sql) /\ x.row_count = max_rows),
              executed |-> Some(stmt), rows |-> x.rows]

\* the gateway, and the arguments its client calls it with
NewGateway(rows, dsn, sql, max_rows) ==
    [rows |-> rows, committed |-> rows, dsn |-> dsn,
     sql |-> sql, max_rows |-> max_rows, last |-> None]

SqlInit ==
    tool \in {NewGateway(rows, dsn, sql, max_rows) :
                 rows \in DbRows, dsn \in BOOLEAN,
                 sql \in Queries, max_rows \in MaxRowsArgs}

T_timescale_sql ==
    LET r == timescale_sql(tool, tool.sql, tool.max_rows)
    IN  tool' = [tool EXCEPT
                   !.rows = r.rows,
                   !.last = Some([ret |-> r.ret, executed |-> r.executed,
                                  rows_before |-> tool.rows])]

SqlNext == T_timescale_sql

\* ------------------------------------------------------------------------
\* Log discovery: discover_ptop_logs (ingestion/ptops_ingest.py)
\* ------------------------------------------------------------------------
\* A name of <root>/var/log is ptop-YYYYMMDD_HHMM.log with a day and a
\* minute of that day (day 0 stands for digits that are no date, as in
\* ptop-20251301_0000.log), or a name the pattern does not match (a day
\* below 0 stands for it).
OtherName == <<0 - 1, 0>>

PtopNames == {<<day, minute>> : day \in 0..MaxDay, minute \in {0, 720}}

DirNames == PtopNames \cup {OtherName}

\* PTOP_LOG_PATTERN.match(name)
PTOP_LOG_PATTERN(name) == name \in PtopNames

\* datetime.strptime(...) raises
strptime_raises(name) == name[1] = 0

\* int(dt.timestamp()): seconds
timestamp(name) == (name[1] * 1440 + name[2]) * 60

\* order of the (timestamp, path) tuples; paths order like the digits of
\* their names
TupleLess(a, b) ==
    \/ a[1] < b[1]
    \/ a[1] = b[1] /\ (a[2][1] < b[2][1] \/ (a[2][1] = b[2][1] /\ a[2][2] < b[2][2]))

\* sorted(S)
RECURSIVE Sorted(_)
Sorted(S) ==
    IF S = {} THEN <<>>
    ELSE LET lo == CHOOSE x \in S : \A y \in S \ {x} : TupleLess(x, y)
         IN  <<lo>> \o Sorted(S \ {lo})

\* candidates.sort(reverse=True); Reverse_same leaves the order ascending
Reverse_same(s) == s

Reverse(s) == [i \in DOMAIN s |-> s[Len(s) + 1 - i]]

\* the warnings, in the order they are appended
BadFilenameWarnings(dir) ==
    {<<"bad_filename_datetime", name>> :
        name \in {x \in dir : PTOP_LOG_PATTERN(x) /\ strptime_raises(x)}}

SelectedWarning(selected, of, requested) ==
    <<"selected", selected, "of", of, "candidates_requested", requested>>

\* discover_ptop_logs(root, max_files) over the names of the log directory
\* (None: there is no such directory): the paths selected and the warnings
\* (as a set)
discover_ptop_logs(dir, max_files) ==
    LET names == dir[1]
        candidates == Reverse(Sorted(
            {<<timestamp(x), x>> :
                x \in {y \in names : PTOP_LOG_PATTERN(y) /\ ~strptime_raises(y)}}))
        clamped == IF max_files < 1 THEN 1 ELSE max_files
        w1 == BadFilenameWarnings(names)
              \cup (IF max_files < 1 THEN {<<"max_files_clamped_min1">>} ELSE {})
        truncate == Len(candidates) > clamped
        kept == IF truncate THEN SubSeq(candidates, 1, clamped) ELSE candidates
        chrono == Sorted(Range(kept))
        selected == [i \in DOMAIN chrono |-> chrono[i][2]]
    IN  IF dir = None
        THEN [selected |-> <<>>, warnings |-> {<<"log_dir_missing">>}]
        ELSE IF candidates = <<>>
        THEN [selected |-> <<>>,
              warnings |-> {<<"no_ptop_logs">>} \cup BadFilenameWarnings(names)]
        ELSE [selected |-> selected,
              warnings |-> w1
                  \cup (IF truncate THEN {<<"max_files_truncated">>} ELSE {})
                  \cup {SelectedWarning(Len(selected), Len(kept), clamped)}]

\* the log directory and the arguments of the call
MaxFilesArgs == 0..MaxFilesArg

DiscInit ==
    tool \in {[dir |-> dir, max_files |-> m, last |-> None] :
                dir \in {None} \cup {Some(d) : d \in SUBSET DirNames},
                m \in MaxFilesArgs}

T_discover_ptop_logs ==
    tool' = [tool EXCEPT !.last = Some(discover_ptop_logs(tool.dir, tool.max_files))]

DiscNext == T_discover_ptop_logs

\* ------------------------------------------------------------------------
\* mcp_app.py: the category allowlist of load_bundle
\* ------------------------------------------------------------------------
all_categories ==
    <<"CPU", "MEM", "DISK", "NET", "TOP", "SMAPS", "DB", "FASTPATH", "OTHER">>

\* load_bundle: categories if categories else all_categories (None and []
\* are both falsy)
eff_categories(categories) ==
    IF categories = None \/ categories[1] = <<>> THEN all_categories
    ELSE categories[1]

\* c.strip().upper()
strip_upper(c) == IF c = " cpu " THEN "CPU" ELSE c

\* _load_bundle_impl: {c.strip().upper() for c in (categories or [])} or {'CPU'}
cat_set(categories) ==
    LET s == IF categories = None THEN {}
             ELSE {strip_upper(c) : c \in Range(categories[1])}
    IN  IF s = {} THEN {"CPU"} ELSE s

\* ','.join(sorted(cat_set)): the names in the order of sorted()
SortedCategories ==
    <<"CPU", "DB", "DISK", "FASTPATH", "MEM", "NET", "OTHER", "SMAPS", "TOP">>

plugins(cs) == SelectSeq(SortedCategories, LAMBDA c : c \in cs)

\* _load_bundle_impl(categories=...) over a bundle with one log file: the
\* samples handed to writer.add and the plugins column of the bundle row
\* (the ingestion catches what a file raises, so the row is updated)
_load_bundle_impl(categories, log) ==
    [submitted |-> iter_metric_samples(log, <<>>,
                       Some(cat_set(categories))).samples,
     plugins |-> plugins(cat_set(categories))]

\* the tool: load_bundle(path, categories=...)
load_bundle_categories(categories, log) ==
    _load_bundle_impl(Some(eff_categories(categories)), log)

CategoryArgs ==
    {None, Some(<<>>), Some(<<"CPU">>), Some(<<" cpu ">>), Some(<<"MEM">>),
     Some(<<"CPU", "FASTPATH">>)}

LoadLogs == UNION {[1..n -> Lines] : n \in 1..MaxLoadLines}

LoadInit ==
    tool \in {[categories |-> c, log |-> log, last |-> None] :
                c \in CategoryArgs, log \in LoadLogs}

T_load_bundle ==
    tool' = [tool EXCEPT !.last = Some(load_bundle_categories(tool.categories,
                                                         tool.log))]

LoadNext == T_load_bundle

\* ------------------------------------------------------------------------
\* mcp_app.py: metric_search
\* ------------------------------------------------------------------------
\* Scores are doubles; the model counts them in hundredths (90 stands for
\* 0.90). On the values of Scores, boosted or not, and the hint score, the
\* comparisons of the doubles come out as the comparisons of the hundredths.
ABS == 90
GAP == 15
AliasBoost == 5
HintScore == 1

\* list.sort(key=score, reverse=True): stable, equal scores keep their order
InsertByScore(s, x) ==
    LET k == Cardinality({i \in DOMAIN s : s[i].score >= x.score})
    IN  SubSeq(s, 1, k) \o <<x>> \o SubSeq(s, k + 1, Len(s))

RECURSIVE SortByScoreDesc(_)
SortByScoreDesc(s) ==
    IF s = <<>> THEN <<>>
    ELSE InsertByScore(SortByScoreDesc(SubSeq(s, 1, Len(s) - 1)), s[Len(s)])

\* only the absolute threshold
AutoSelect_abs_only(top1, top2) == top1 >= ABS

\* top1 >= ABS or (top1 - top2) >= GAP
AutoSelect(top1, top2) == top1 >= ABS \/ (top1 - top2) >= GAP

\* (c.get('metric_name') or '').startswith('process_')
StartsWithProcess(name) == name \in {"process_cpu"}

\* _metric_search_impl from the matches of the search on: alias_ids are the
\* documents the query is an alias of, asks_process / asks_rss say whether the
\* query holds one of the words that bring in a hint
_metric_search_impl(matches, alias_ids, asks_process, asks_rss) ==
    LET boosted ==
            IF alias_ids = {} THEN matches
            ELSE SortByScoreDesc(
                     [i \in DOMAIN matches |->
                        IF matches[i].metric_name \in alias_ids
                        THEN [matches[i] EXCEPT !.score = @ + AliasBoost]
                        ELSE matches[i]])
        c1 == IF asks_process
                 /\ ~\E i \in DOMAIN boosted : StartsWithProcess(boosted[i].metric_name)
              THEN Append(boosted, [metric_name |-> "top_process_stats",
                                    score |-> HintScore])
              ELSE boosted
        c2 == IF asks_rss
                 /\ ~\E i \in DOMAIN c1 : c1[i].metric_name = "smaps_rss_kb"
              THEN Append(c1, [metric_name |-> "smaps_process_memory",
                               score |-> HintScore])
              ELSE c1
        candidates == SortByScoreDesc(c2)
        top1 == candidates[1].score
        top2 == IF Len(candidates) > 1 THEN candidates[2].score ELSE 0
    IN  IF candidates = <<>>
        THEN [candidates |-> candidates, decision |-> "no_match",
              auto_selected |-> None, confidence |-> 0]
        ELSE IF AutoSelect(top1, top2)
        THEN [candidates |-> candidates, decision |-> "auto_select",
              auto_selected |-> Some(candidates[1].metric_name),
              confidence |-> top1]
        ELSE [candidates |-> candidates, decision |-> "ambiguous",
              auto_selected |-> None, confidence |-> top1]

\* the tool: auto_select is returned as 'auto'
metric_search(matches, alias_ids, asks_process, asks_rss) ==
    LET out == _metric_search_impl(matches, alias_ids, asks_process, asks_rss)
    IN  [out EXCEPT !.decision = IF @ = "auto_select" THEN "auto" ELSE @]

\* what the search returns: documents of distinct metrics, best score first
MetricNames == {"cpu_utilization", "process_cpu", "smaps_rss_kb"}

Scores == {0 - 20, 0 - 10, 0, 70, 75, 85, 89, 90}

Matches ==
    {m \in UNION {[1..n -> [metric_name : MetricNames, score : Scores]] :
                     n \in 0..MaxMatches} :
        \A i, j \in DOMAIN m :
            i < j => /\ m[i].metric_name # m[j].metric_name
                     /\ m[i].score >= m[j].score}

SearchInit ==
    tool \in {[matches |-> m, alias_ids |-> a, asks_process |-> p,
               asks_rss |-> r, last |-> None] :
                m \in Matches, a \in {{}, {"cpu_utilization"}},
                p \in BOOLEAN, r \in BOOLEAN}

T_metric_search ==
    tool' = [tool EXCEPT
               !.last = Some(metric_search(tool.matches, tool.alias_ids,
                                           tool.asks_process, tool.asks_rss))]

SearchNext == T_metric_search

\* ------------------------------------------------------------------------
\* mcp_app.py: _extract_bundle
\* ------------------------------------------------------------------------
\* A member name is the sequence m.name.split('/'): a name that starts with
\* '/' has the empty string as its first piece.
MemberNames ==
    { <<"var", "log", "x">>, <<"", "abs", "y">>, <<"..", "up">>,
      <<"a", "..", "b">>, <<"a..b">>, <<".", "c">>, <<"..hidden", "z">>,
      <<"d", "..">> }

Archives == UNION {[1..n -> MemberNames] : n \in 0..MaxMembers}

\* m.name.startswith('/')
startswith_slash(name) == name[1] = ""

\* no member filtered out
_safe_members_all(members) == members

\* _safe_members: the members that are passed on to extractall
_safe_members(members) ==
    SelectSeq(members,
        LAMBDA m : ~(startswith_slash(m) \/ ".." \in Range(m)))

\* the extraction of _extract_bundle into the emptied dest: the names
\* written, or the ValueError made of what tarfile raises
_extract_bundle(archive, corrupt) ==
    IF corrupt THEN [raised |-> TRUE, written |-> {}]
    ELSE [raised |-> FALSE, written |-> Range(_safe_members(archive))]

ExtractInit ==
    tool \in {[archive |-> a, corrupt |-> c, dest |-> {}, last |-> None] :
                a \in Archives, c \in BOOLEAN}

T_extract_bundle ==
    LET r == _extract_bundle(tool.archive, tool.corrupt)
    IN  tool' = [tool EXCEPT !.dest = r.written,
                             !.last = Some([raised |-> r.raised])]

ExtractNext == T_extract_bundle

\* ------------------------------------------------------------------------
\* mcp_app.py: two load_bundle calls on the shared catalog connection,
\* one catalog statement at a time
\* ------------------------------------------------------------------------

Callers == 1..2

\* a call that has not yet run its first statement. existing: the row
\* get_bundle_by_hash returned; ga_row: what the SELECT of set_global_active
\* saw; status: "running", "returned" or "raised"
NewCall ==
    [pc |-> "lookup", existing |-> {}, bundle_id |-> NULL, ga_row |-> FALSE,
     status |-> "running", reused |-> FALSE]

\* the catalog before the two calls: empty, or holding one bundle of another
\* (sptid, bundle_hash) that is active or was deactivated
PriorCatalogs(sptid, h) ==
    {[rows |-> {}, ga |-> {}, next |-> 1]} \cup
    {[rows |-> {[new_bundle_row(1, s, g) EXCEPT !.ingested = 1]},
      ga |-> {[id |-> 1, bundle_id |-> a]}, next |-> 2] :
        s \in Sptids \ {sptid}, g \in Hashes, a \in {1, NULL}}

TwoLoadsInit ==
    \E sptid \in Sptids, h \in Hashes :
      \E prior \in PriorCatalogs(sptid, h) :
        /\ tool = [sptid |-> sptid, h |-> h, call |-> [c \in Callers |-> NewCall]]
        /\ bundles = prior.rows
        /\ global_active = prior.ga
        /\ next_uuid = prior.next
        /\ result = NoResult

\* existing = get_bundle_by_hash(...); without a row the call draws its
\* bundle_id from uuid4
L_lookup(c) ==
    LET existing == get_bundle_by_hash(bundles, tool.sptid, tool.h) IN
    /\ tool.call[c].pc = "lookup"
    /\ IF existing # {}
       THEN /\ tool' = [tool EXCEPT !.call[c].pc = "ga_select",
                           !.call[c].existing = existing,
                           !.call[c].reused = TRUE,
                           !.call[c].bundle_id =
                               (CHOOSE r \in existing : TRUE).bundle_id]
            /\ UNCHANGED next_uuid
       ELSE /\ tool' = [tool EXCEPT !.call[c].pc = "ga_select",
                           !.call[c].bundle_id = next_uuid]
            /\ next_uuid' = next_uuid + 1
    /\ UNCHANGED <<bundles, global_active, result>>

\* set_global_active: SELECT id FROM global_active WHERE id=1
L_ga_select(c) ==
    /\ tool.call[c].pc = "ga_select"
    /\ tool' = [tool EXCEPT !.call[c].pc = "ga_write",
                   !.call[c].ga_row = (\E g \in global_active : g.id = 1)]
    /\ UNCHANGED <<bundles, global_active, next_uuid, result>>

\* set_global_active: the UPDATE or the INSERT the SELECT decided on. The
\* INSERT of a second row id=1 violates the primary key: IntegrityError,
\* which nothing in _load_bundle_impl catches. A reusing call returns here.
L_ga_write(c) ==
    LET me == tool.call[c]
        conflict == ~me.ga_row /\ (\E g \in global_active : g.id = 1)
    IN
    /\ me.pc = "ga_write"
    /\ global_active' =
          IF me.ga_row
          THEN {[g EXCEPT !.bundle_id = me.bundle_id] : g \in global_active}
          ELSE IF conflict THEN global_active
          ELSE global_active \cup {[id |-> 1, bundle_id |-> me.bundle_id]}
    /\ tool' = IF conflict
               THEN [tool EXCEPT !.call[c].pc = "done",
                                 !.call[c].status = "raised"]
               ELSE IF me.reused
               THEN [tool EXCEPT !.call[c].pc = "done",
                                 !.call[c].status = "returned"]
               ELSE [tool EXCEPT !.call[c].pc = "insert"]
    /\ UNCHANGED <<bundles, next_uuid, result>>

\* insert_bundle(rec), outside the try block: its IntegrityError escapes
L_insert(c) ==
    LET me == tool.call[c]
        ins == insert_bundle(bundles,
                   new_bundle_row(me.bundle_id, tool.sptid, tool.h))
    IN
    /\ me.pc = "insert"
    /\ bundles' = ins.rows
    /\ tool' = IF ins.raised
               THEN [tool EXCEPT !.call[c].pc = "done",
                                 !.call[c].status = "raised"]
               ELSE [tool EXCEPT !.call[c].pc = "ingest"]
    /\ UNCHANGED <<global_active, next_uuid, result>>

\* the try block: extract, discover, ingest, then UPDATE bundles SET ...
\* ingested=1 WHERE bundle_id=?; an exception becomes the warning
\* ingest_failed and the call returns
L_ingest(c) ==
    LET me == tool.call[c] IN
    /\ me.pc = "ingest"
    /\ \E outcome \in IngestOutcomes :
          bundles' =
              IF outcome.raised THEN bundles
              ELSE {IF r.bundle_id = me.bundle_id
                    THEN [r EXCEPT !.logs_processed = outcome.logs,
                                   !.metrics_ingested = outcome.metrics,
                                   !.ingested = 1]
                    ELSE r : r \in bundles}
    /\ tool' = [tool EXCEPT !.call[c].pc = "done",
                            !.call[c].status = "returned"]
    /\ UNCHANGED <<global_active, next_uuid, result>>

TwoLoadsNext ==
    \E c \in Callers :
        \/ L_lookup(c)
        \/ L_ga_select(c)
        \/ L_ga_write(c)
        \/ L_insert(c)
        \/ L_ingest(c)

\* ------------------------------------------------------------------------
\* Specifications
\* ------------------------------------------------------------------------

WriterIdle ==
    /\ writer = NewWriter(1, FALSE, FALSE, FALSE)
    /\ store = EmptyBag

ParIdle ==
    /\ files = <<>> /\ max_workers = 1 /\ task = <<>>
    /\ writer_lock = FREE /\ orch = NewOrch

ParserIdle == parser = NewParser(<<>>, None)

ToolIdle == tool = None

\* the catalog and the bundle tools
Init == BundleInit /\ WriterIdle /\ ParIdle /\ ParserIdle /\ ToolIdle

Next == BundleNext /\ UNCHANGED <<writer_vars, par_vars, parser_vars, tool_vars>>

Spec == Init /\ [][Next]_vars

\* the writer
InitWriter == WriterInit /\ BundleInit /\ ParIdle /\ ParserIdle /\ ToolIdle

NextWriter ==
    WriterNext /\ UNCHANGED <<bundle_vars, par_vars, parser_vars, tool_vars>>

SpecWriter == InitWriter /\ [][NextWriter]_vars

\* one ingestion call on a connected writer: ingest_ptop_logs_parallel, or
\* ingest_ptop_logs
InitPar == ParInit /\ BundleInit /\ ParserIdle /\ ToolIdle

NextPar ==
    (ParNext \/ SeqNext) /\ UNCHANGED <<bundle_vars, parser_vars, tool_vars>>

SpecPar == InitPar /\ [][NextPar]_vars

\* one PTOPSParser object over one log file
InitParser == ParserInit /\ BundleInit /\ WriterIdle /\ ParIdle /\ ToolIdle

NextParser ==
    ParserNext /\ UNCHANGED <<bundle_vars, writer_vars, par_vars, tool_vars>>

SpecParser == InitParser /\ [][NextParser]_vars

\* the SQL gateway over one connection
InitSql == SqlInit /\ BundleInit /\ WriterIdle /\ ParIdle /\ ParserIdle

NextSql ==
    SqlNext /\ UNCHANGED <<bundle_vars, writer_vars, par_vars, parser_vars>>

SpecSql == InitSql /\ [][NextSql]_vars

\* log discovery over one directory
InitDisc == DiscInit /\ BundleInit /\ WriterIdle /\ ParIdle /\ ParserIdle

NextDisc ==
    DiscNext /\ UNCHANGED <<bundle_vars, writer_vars, par_vars, parser_vars>>

SpecDisc == InitDisc /\ [][NextDisc]_vars

\* load_bundle over one bundle and its categories argument
InitLoad == LoadInit /\ BundleInit /\ WriterIdle /\ ParIdle /\ ParserIdle

NextLoad ==
    LoadNext /\ UNCHANGED <<bundle_vars, writer_vars, par_vars, parser_vars>>

SpecLoad == InitLoad /\ [][NextLoad]_vars

\* metric_search over the matches of one query
InitSearch == SearchInit /\ BundleInit /\ WriterIdle /\ ParIdle /\ ParserIdle

NextSearch ==
    SearchNext /\ UNCHANGED <<bundle_vars, writer_vars, par_vars, parser_vars>>

SpecSearch == InitSearch /\ [][NextSearch]_vars

\* the extraction of one archive
InitExtract == ExtractInit /\ BundleInit /\ WriterIdle /\ ParIdle /\ ParserIdle

NextExtract ==
    ExtractNext /\ UNCHANGED <<bundle_vars, writer_vars, par_vars, parser_vars>>

SpecExtract == InitExtract /\ [][NextExtract]_vars

\* two interleaved load_bundle calls
InitTwoLoads == TwoLoadsInit /\ WriterIdle /\ ParIdle /\ ParserIdle

NextTwoLoads ==
    TwoLoadsNext /\ UNCHANGED <<writer_vars, par_vars, parser_vars>>

SpecTwoLoads == InitTwoLoads /\ [][NextTwoLoads]_vars

\* ------------------------------------------------------------------------
\* Properties of the bundle lifecycle
\* ------------------------------------------------------------------------

\* the bundle_id column of the single global_active row (NULL without a row)
Pointer(ga) == IF ga = {} THEN NULL ELSE (CHOOSE g \in ga : TRUE).bundle_id

Ids(rows) == {r.bundle_id : r \in rows}

RowsOfKey(rows, sptid, h) ==
    {r \in rows : r.sptid = sptid /\ r.bundle_hash = h}

\* C1: a non-forced load of a (sptid, bundle_hash) that already has a row
\* returns that row's bundle_id with reused=true, leaves the bundles table as
\* it was and leaves that bundle as the active one.
C1_ReuseExisting ==
    [][\A sptid \in Sptids, h \in Hashes :
        (/\ result'.op = "load_bundle"
         /\ RowsOfKey(bundles, sptid, h) # {}
         /\ load_bundle(sptid, h, FALSE))
        => LET e == CHOOSE r \in RowsOfKey(bundles, sptid, h) : TRUE IN
           /\ result'.status = "returned"
           /\ result'.bundle_id = e.bundle_id
           /\ result'.reused
           /\ bundles' = bundles
           /\ Pointer(global_active') = e.bundle_id]_vars

C1_Witness ==
    /\ result.op = "load_bundle" /\ result.reused
    /\ result.bundle_id \in Ids(bundles)
    /\ Pointer(global_active) = result.bundle_id
    /\ Cardinality(bundles) >= 2

\* C2: a forced load of a (sptid, bundle_hash) that already has a row returns
\* a newly generated bundle_id, different from the existing one, with
\* reused=false, and the existing row is gone from the catalog afterwards.
C2_ForceFreshId ==
    [][\A sptid \in Sptids, h \in Hashes :
        (/\ result'.op = "load_bundle"
         /\ RowsOfKey(bundles, sptid, h) # {}
         /\ result'.deleted_bundle_id # NULL
         /\ load_bundle(sptid, h, TRUE))
        => LET e == CHOOSE r \in RowsOfKey(bundles, sptid, h) : TRUE IN
           /\ result'.status = "returned"
           /\ ~result'.reused
           /\ result'.bundle_id # e.bundle_id
           /\ result'.bundle_id \notin Ids(bundles)
           /\ e.bundle_id \notin Ids(bundles')
           /\ \E r \in bundles' : /\ r.bundle_id = result'.bundle_id
                                  /\ r.sptid = sptid /\ r.bundle_hash = h]_vars

C2_Witness ==
    /\ result.op = "load_bundle" /\ result.status = "returned"
    /\ ~result.reused
    /\ result.deleted_bundle_id # NULL
    /\ result.deleted_bundle_id \notin Ids(bundles)
    /\ result.bundle_id \in Ids(bundles)

\* C3: no two bundle rows share their (sptid, bundle_hash) pair.
C3_UniqueSptidHash ==
    \A r1 \in bundles, r2 \in bundles :
        (r1.sptid = r2.sptid /\ r1.bundle_hash = r2.bundle_hash) => r1 = r2

C3_Witness ==
    /\ result.op = "load_bundle" /\ result.status = "returned"
    /\ result.reused
    /\ \E r1, r2 \in bundles : r1 # r2 /\ r1.sptid = r2.sptid

\* C4: when load_bundle has returned (reused, fresh, or fresh with the
\* ingest_failed warning) the active pointer equals the returned bundle_id.
C4_LoadSetsActive ==
    (result.op = "load_bundle" /\ result.status = "returned")
        => /\ Pointer(global_active) = result.bundle_id
           /\ active_context(global_active) = result.bundle_id

C4_Witness ==
    /\ result.op = "load_bundle" /\ result.status = "returned"
    /\ result.ingest_failed
    /\ Pointer(global_active) = result.bundle_id
    /\ Cardinality(bundles) >= 2

\* C5: after unload_bundle removed the bundle the pointer referenced, the
\* pointer is the id of a remaining row, returned as promoted_bundle_id, when
\* a row remains, and NULL when none remains.
C5_PromoteAfterUnload ==
    [][\A arg \in BundleIds \cup {NULL} :
        (/\ result'.op = "unload_bundle"
         /\ Pointer(global_active) # NULL
         /\ Pointer(global_active) \in Ids(bundles)
         /\ arg \in {NULL, Pointer(global_active)}
         /\ unload_bundle(arg))
        => /\ Pointer(global_active) \notin Ids(bundles')
           /\ IF bundles' # {}
              THEN /\ Pointer(global_active') \in Ids(bundles')
                   /\ result'.promoted_bundle_id = Pointer(global_active')
              ELSE /\ Pointer(global_active') = NULL
                   /\ active_context(global_active') = NULL
                   /\ result'.promoted_bundle_id = NULL]_vars

C5_Witness ==
    /\ result.op = "unload_bundle" /\ result.active_cleared
    /\ result.promoted_bundle_id # NULL
    /\ result.promoted_bundle_id = Pointer(global_active)
    /\ Cardinality(bundles) >= 1

\* C6: unload_bundle of an existing bundle that is not the active one deletes
\* that row only: the pointer and the other rows keep their values,
\* active_cleared is false and nothing is promoted.
C6_UnloadNonActiveFrame ==
    [][\A arg \in BundleIds :
        (/\ result'.op = "unload_bundle"
         /\ arg \in Ids(bundles)
         /\ Pointer(global_active) # arg
         /\ unload_bundle(arg))
        => /\ bundles' = {r \in bundles : r.bundle_id # arg}
           /\ Cardinality(bundles') = Cardinality(bundles) - 1
           /\ global_active' = global_active
           /\ result'.bundle_id = arg
           /\ ~result'.active_cleared
           /\ result'.promoted_bundle_id = NULL]_vars

C6_Witness ==
    /\ result.op = "unload_bundle" /\ result.unloaded
    /\ ~result.active_cleared
    /\ Pointer(global_active) \in Ids(bundles)
    /\ result.bundle_id \notin Ids(bundles)
    /\ Cardinality(bundles) >= 1

\* C7: the active pointer is NULL or the bundle_id of a row that exists.
C7_PointerNotDangling ==
    Pointer(global_active) = NULL \/ Pointer(global_active) \in Ids(bundles)

C7_Witness ==
    /\ result.op = "unload_bundle" /\ result.active_cleared
    /\ global_active # {} /\ Pointer(global_active) = NULL
    /\ bundles = {}

\* ------------------------------------------------------------------------
\* Properties of the writer
\* ------------------------------------------------------------------------

StoreRows == BagToSet(store)

PendingRows == Range(writer.pending)

\* the samples whose name is a legacy alias of a canonical metric, each with
\* the row key and the column add resolves for it
AliasAdds ==
    {[sample |-> s,
      key |-> RowKey(_resolve_group_and_column(s.name).grp, s),
      column |-> _resolve_group_and_column(s.name).column] :
        s \in {x \in Samples : /\ _resolve_group_and_column(x.name).found
                               /\ _resolve_group_and_column(x.name).is_alias}}

\* C8: in add, an alias sample never changes a column of a pending row that
\* holds a non-null value; it writes its column only when the column is null.
C8_AliasNeverOverwrites ==
    [][\A a \in AliasAdds :
          (/\ writer'.last_key = Some(a.key)
           /\ \E failing \in SUBSET AddFlushTables(writer, a.sample) :
                  WAdd(a.sample, failing)) =>
            LET held == IF a.key \in DOMAIN writer.pending
                        THEN writer.pending[a.key].values[a.column] ELSE None
                now == writer'.pending[a.key].values[a.column]
            IN
            /\ a.key \in DOMAIN writer'.pending
            /\ held # None => now = held
            /\ held = None => now = Some(a.sample.value)
            /\ \A k \in DOMAIN writer.pending \cap DOMAIN writer'.pending :
                  \A c \in DOMAIN writer.pending[k].values :
                     writer.pending[k].values[c] # None =>
                        writer'.pending[k].values[c]
                            = writer.pending[k].values[c]]_vars

C8_Witness ==
    \E r \in PendingRows :
        /\ r.table = "ptops_cpu"
        /\ r.hist["cpu_utilization"].canon = Some(0)
        /\ r.hist["cpu_utilization"].alias = Some(1)
        /\ r.values["cpu_utilization"] = Some(0)

\* C9: a flushed row holds, in each column, the value of the canonical
\* sample the row received for it (the last one if several), whether the
\* alias samples came before or after; it holds the first alias sample's
\* value only if the row received no canonical sample for the column.
C9_CanonicalWins ==
    \A r \in StoreRows : \A c \in DOMAIN r.values :
        r.values[c] = IF r.hist[c].canon # None THEN r.hist[c].canon
                      ELSE r.hist[c].alias

C9_Witness ==
    \E r \in StoreRows :
        /\ r.table = "ptops_cpu"
        /\ r.hist["cpu_utilization"].canon = Some(1)
        /\ r.hist["cpu_utilization"].alias = Some(0)
        /\ r.values["cpu_utilization"] = Some(1)

\* ------------------------------------------------------------------------
\* Properties of parallel ingestion
\* ------------------------------------------------------------------------

WithGlobalLabels(sample) == [sample EXCEPT !.labels = Update(@, global_labels)]

\* the logical row keys of the samples a file's parser yields
KeysOfFile(file) ==
    {RowKey(_resolve_group_and_column(s.name).grp, WithGlobalLabels(s)) :
        s \in {x \in Range(file.samples) :
                  _resolve_group_and_column(x.name).found}}

\* the columns the samples of one key are written to
ColumnsOfKey(key) ==
    {_resolve_group_and_column(s.name).column :
        s \in {x \in UNION {Range(files[f].samples) : f \in DOMAIN files} :
                 /\ _resolve_group_and_column(x.name).found
                 /\ RowKey(_resolve_group_and_column(x.name).grp,
                           WithGlobalLabels(x)) = key}}

DisjointKeys ==
    \A f, g \in DOMAIN files :
        f # g => KeysOfFile(files[f]) \cap KeysOfFile(files[g]) = {}

ReadableFiles ==
    \A f \in DOMAIN files :
        ~files[f].missing /\ files[f].raise_after = None

\* C10: when the files ingested in parallel have pairwise disjoint logical
\* row keys, then once the call has returned, whatever the interleaving of
\* the workers' hand-offs was, every key is in the store as exactly one row
\* that holds all the columns of the key's samples, and the store is the one
\* that ingesting the files one after another produces.
C10_CoalescingSafeUnderInterleaving ==
    (orch.pc = "returned" /\ ReadableFiles /\ DisjointKeys) =>
        /\ \A f \in DOMAIN files : \A key \in KeysOfFile(files[f]) :
              /\ Cardinality({r \in StoreRows : r.key = key}) = 1
              /\ \A r \in StoreRows :
                    r.key = key =>
                       /\ CopiesIn(r, store) = 1
                       /\ \A c \in ColumnsOfKey(key) : r.values[c] # None
        /\ store = ingest_ptop_logs(
                       [w |-> NewWriter(writer.batch_size, TRUE, FALSE, FALSE),
                        store |-> EmptyBag, raised |-> FALSE], files).store

\* ------------------------------------------------------------------------
\* Properties of the writer's counters and of a failing flush
\* ------------------------------------------------------------------------

\* C11: across add and flush calls total_rows_added never decreases, and
\* total_rows_flushed never exceeds total_rows_added once a call has returned.
C11_CountersMonotone ==
    [][/\ writer'.total_rows_added >= writer.total_rows_added
       /\ writer'.total_rows_flushed <= writer'.total_rows_added]_vars

C11_Witness ==
    /\ writer.total_flushes >= 1
    /\ writer.total_rows_added = 2
    /\ writer.total_rows_flushed = 2
    /\ writer.pending = <<>>

\* C12: a flush whose store write fails does not raise; the rows of the
\* failed tables are not committed, the connection is kept, and on return
\* the pending map is empty and the last-key marker reset.
C12_FlushNeverRaises ==
    [][\A failing \in SUBSET FailableTables(writer) :
          (writer.pending # <<>> /\ WFlush(failing)) =>
             /\ ~flush(St, failing).raised
             /\ writer'.pending = <<>>
             /\ writer'.last_key = None
             /\ writer'.conn = writer.conn
             /\ \A r \in PendingRows :
                   CopiesIn(r, store') =
                      CopiesIn(r, store)
                         + (IF r.table \in failing \/ ~writer.conn
                            THEN 0 ELSE 1)]_vars

C12_Witness ==
    /\ writer.conn
    /\ writer.pending = <<>> /\ writer.last_key = None
    /\ writer.total_flushes >= 1
    /\ writer.total_rows_flushed > BagCardinality(store)

\* C13: after a flush on a connected writer, the rows that were not
\* committed are not counted in total_rows_flushed, so total_rows_added
\* minus total_rows_flushed is the number of rows lost (started, no longer
\* pending, and not in the store).
C13_LossShownByCounters ==
    (writer.conn /\ writer.pending = <<>>) =>
        writer.total_rows_added - writer.total_rows_flushed
            = writer.total_rows_added - BagCardinality(store)

\* ------------------------------------------------------------------------
\* Properties of the ingestion call's return value
\* ------------------------------------------------------------------------

IngestReturned == orch.pc \in {"returned", "returned_sequential"}

\* the files whose processing raises
FailedFiles == {f \in DOMAIN files : files[f].raise_after # None}

RECURSIVE SumSamples(_)
SumSamples(F) ==
    IF F = {} THEN 0
    ELSE LET f == CHOOSE x \in F : TRUE
         IN Len(files[f].samples) + SumSamples(F \ {f})

\* C30: add(sample) flushes before it inserts exactly when the key of the
\* sample is not in the pending map and the map holds at least batch_size
\* rows; a sample whose key is pending never flushes. (add leaves the key of
\* its sample in _last_key, flush leaves None there: the steps with a key in
\* _last_key afterwards are those of add.)
C30_AutoFlushOnNewRowOnly ==
    [][writer'.last_key # None =>
          LET key == writer'.last_key[1]
              flushed == writer'.total_flushes = writer.total_flushes + 1
          IN  /\ flushed <=>
                    (/\ key \notin DOMAIN writer.pending
                     /\ Cardinality(DOMAIN writer.pending) >= writer.batch_size)
              /\ ~flushed => writer'.total_flushes = writer.total_flushes
              /\ flushed => DOMAIN writer'.pending = {key}]_vars

\* a full map flushed by the add that started the next row
C30_Witness ==
    /\ writer.batch_size = 1
    /\ writer.total_flushes = 1
    /\ writer.total_rows_added = 2
    /\ writer.total_rows_flushed = 1
    /\ Cardinality(DOMAIN writer.pending) = 1
    /\ writer.last_key # None

\* C31: with adaptive batching in insert mode, batch_size is doubled (capped
\* at max_batch_size, adaptive_upscales incremented) exactly by a flush that
\* drained exactly batch_size rows while batch_size was below max_batch_size;
\* it never decreases, never exceeds max_batch_size, and never changes when
\* adaptive batching is off or the writer is in copy mode.
C31_AdaptiveBatch ==
    [][LET drained == Cardinality(DOMAIN writer.pending)
           flushed == writer'.total_flushes = writer.total_flushes + 1
           doubles == /\ flushed
                      /\ writer.adaptive_enabled /\ ~writer.use_copy
                      /\ drained = writer.batch_size
                      /\ writer.batch_size < writer.max_batch_size
       IN  /\ doubles =>
                /\ writer'.batch_size =
                      IF 2 * writer.batch_size <= writer.max_batch_size
                      THEN 2 * writer.batch_size ELSE writer.max_batch_size
                /\ writer'.adaptive_upscales = writer.adaptive_upscales + 1
           /\ ~doubles =>
                /\ writer'.batch_size = writer.batch_size
                /\ writer'.adaptive_upscales = writer.adaptive_upscales
           /\ writer'.batch_size >= writer.batch_size
           /\ writer'.batch_size <= writer'.max_batch_size
           /\ writer'.max_batch_size = writer.max_batch_size]_vars

\* a flush of two rows at batch_size 2 raised the size to the cap
C31_Witness ==
    /\ writer.adaptive_enabled /\ ~writer.use_copy
    /\ writer.adaptive_upscales = 1
    /\ writer.batch_size = writer.max_batch_size
    /\ writer.total_rows_flushed = 2
    /\ writer.total_flushes = 1

\* C37: after any sequence of add and flush calls the pending map holds at
\* most batch_size rows.
C37_PendingWithinBatch ==
    Cardinality(DOMAIN writer.pending) <= writer.batch_size

\* a full pending map
C37_Witness ==
    /\ writer.batch_size = 2
    /\ Cardinality(DOMAIN writer.pending) = 2
    /\ writer.total_flushes = 0

\* C14: when the processing of a file raises, the ingestion call still
\* returns, on the parallel and on the sequential path, and its metrics
\* total is the sum of what the other files yield: the failed file adds zero.
C14_FailedFileContributesZero ==
    IngestReturned =>
        orch.ret[1].metrics_ingested
            = SumSamples({f \in DOMAIN files :
                            f \notin FailedFiles /\ ~files[f].missing})

\* C15: the time range an ingestion call returns has start_ts <= end_ts.
C15_StartBeforeEnd ==
    IngestReturned => orch.ret[1].start_ts <= orch.ret[1].end_ts

\* ------------------------------------------------------------------------
\* Properties of the workers and the writer lock
\* ------------------------------------------------------------------------
\* the workers inside "with writer_lock:"
Adding == {f \in DOMAIN task : task[f].pc \in {"adding", "last_adding"}}

\* what the parser of file f yields, with the labels of the call
Yielded(f) ==
    [i \in DOMAIN files[f].samples |->
        [files[f].samples[i] EXCEPT !.labels = Update(@, global_labels)]]

\* C32: at most one thread at a time executes writer.add or writer.flush:
\* a worker that adds holds the writer lock, and so does the orchestrator
\* during the final flush.
C32_WriterLockExcludes ==
    /\ \A f \in Adding : writer_lock = f
    /\ orch.pc = "flushing" => writer_lock = MAIN
    /\ Cardinality(Adding) + (IF orch.pc = "flushing" THEN 1 ELSE 0) <= 1
    /\ writer_lock # FREE => (Adding # {} \/ orch.pc = "flushing")

\* one worker adds while another waits for the lock with its batch
C32_Witness ==
    \E f, g \in DOMAIN task :
        /\ f # g
        /\ task[f].pc \in {"adding", "last_adding"}
        /\ task[g].pc \in {"handoff", "last_handoff"}
        /\ writer_lock = f

\* C33: a file that completes without an exception has every sample its
\* parser yielded passed to writer.add exactly once, in the order yielded;
\* at every moment what a worker has added is a prefix of what was yielded.
C33_SamplesAddedInOrder ==
    \A f \in DOMAIN task :
        /\ Len(task[f].added) <= Len(files[f].samples)
        /\ task[f].added = SubSeq(Yielded(f), 1, Len(task[f].added))
        /\ (task[f].pc = "done" /\ ~files[f].missing
               /\ files[f].raise_after = None)
              => task[f].added = Yielded(f)

\* two files completed, one of them in two hand-offs
C33_Witness ==
    \E f, g \in DOMAIN task :
        /\ f # g
        /\ task[f].pc = "done" /\ task[g].pc = "done"
        /\ Len(task[f].added) = 4 /\ Len(task[g].added) >= 1
        /\ task[f].added = Yielded(f)

RECURSIVE SeqBag(_)
SeqBag(s) ==
    IF s = <<>> THEN EmptyBag ELSE SetToBag({Head(s)}) (+) SeqBag(Tail(s))

\* the samples passed to writer.add by the workers of the files 1..n
RECURSIVE AddedBag(_)
AddedBag(n) ==
    IF n = 0 THEN EmptyBag ELSE SeqBag(task[n].added) (+) AddedBag(n - 1)

\* the samples ingest_ptop_logs passes to writer.add for the files 1..n
RECURSIVE SeqAddedBag(_)
SeqAddedBag(n) ==
    IF n = 0 THEN EmptyBag
    ELSE SeqBag(SubSeq(Yielded(n), 1, Len(SamplesAdded(files[n]))))
            (+) SeqAddedBag(n - 1)

\* C35: ingest_ptop_logs_parallel returns what ingest_ptop_logs returns for
\* the same files (the counts, and the time range when samples exist) and
\* submits the same multiset of samples to the writer.
C35_ParallelEqualsSequential ==
    orch.pc = "returned" =>
        LET seq == ingest_ptop_logs_return(files, orch.ret[1].start_ts)
        IN  /\ orch.ret[1].metrics_ingested = seq.metrics_ingested
            /\ orch.ret[1].logs_processed = seq.logs_processed
            /\ seq.metrics_ingested > 0 =>
                  /\ orch.ret[1].start_ts = seq.start_ts
                  /\ orch.ret[1].end_ts = seq.end_ts
            /\ AddedBag(Len(files)) = SeqAddedBag(Len(files))

\* C38: the metrics_ingested a parallel call returns is the number of
\* samples passed to writer.add during the call.
C38_CountEqualsAdds ==
    orch.pc = "returned" =>
        orch.ret[1].metrics_ingested = BagCardinality(AddedBag(Len(files)))

\* ------------------------------------------------------------------------
\* Properties of the parser
\* ------------------------------------------------------------------------
\* the last iteration of the parser object
Last == parser.last[1]

Iterated == parser.last # None

\* C16: no exception escapes iter_records or iter_metric_samples, whatever
\* the lines of the file: a line with a known prefix and too few tokens or a
\* value that is no number yields no record and raises nothing.
C16_NoExceptionEscapes == Iterated => ~Last.raised

\* a TIME line that one of the two TIME forms accepts, and one that none does
WellFormedTime(line) == TIME_FULL_RE(line) \/ TIME_FALLBACK_RE(line)

MalformedTime(line) ==
    Len(line.toks) >= 1 /\ line.toks[1] = "TIME" /\ ~WellFormedTime(line)

AnchorsBefore(n) == {k \in 1..(n - 1) : WellFormedTime(parser.log[k])}

NotMalformedTime(line) == ~MalformedTime(line)

\* a record without the position of its line
Content(records) ==
    [i \in DOMAIN records |->
        <<records[i].prefix, records[i].fields, records[i].ts_ms>>]

\* C17: every record carries 1000 times the epoch seconds of the most recent
\* well-formed TIME line before it, and there is such a line; IDENT lines
\* set their labels wherever they stand; and the TIME lines that match
\* neither form change nothing: without them the file yields the same
\* records.
C17_RecordsCarryLastAnchor ==
    Iterated =>
        /\ \A i \in DOMAIN Last.records :
              LET r == Last.records[i]
                  A == AnchorsBefore(r.line)
              IN  /\ A # {}
                  /\ r.ts_ms = 1000 * int_epoch(parser.log[SetMax(A)].toks[3])
        /\ (~Last.raised /\ \E k \in DOMAIN parser.log : IDENT_RE(parser.log[k]))
              => Has(parser._global_labels, "ptop_version")
        /\ Content(Last.records) =
              Content(iter_records(SelectSeq(parser.log, NotMalformedTime),
                                   <<>>).records)

\* a record was yielded for the line that follows a malformed TIME line,
\* under the anchor before that line
C17_Witness ==
    /\ Iterated /\ Len(parser.log) = 3
    /\ WellFormedTime(parser.log[1]) /\ MalformedTime(parser.log[2])
    /\ \E i \in DOMAIN Last.records :
          /\ Last.records[i].line = 3
          /\ Last.records[i].ts_ms = 1000 * int_epoch(parser.log[1].toks[3])

\* the fields a line of the full CPU shape writes
CpuFieldsWritten(toks) ==
    << <<"cpu_id", toks[2]>>, <<"utilization", float(toks[4])>>,
       <<"idle_percent", float(toks[6])>>, <<"iowait_percent", float(toks[7])>>,
       <<"user_percent", float(toks[9])>>, <<"system_percent", float(toks[10])>>,
       <<"nice_percent", float(toks[11])>>, <<"hardirq_percent", float(toks[14])>>,
       <<"softirq_percent", float(toks[15])>> >>

\* C18: a line of the full CPU shape, read under a timestamp by an iteration
\* that ran to the end, yields exactly one record: a CPU record with the
\* utilization and the seven percentages written on the line.
C18_FullCpuLineYieldsItsValues ==
    (Iterated /\ ~Last.raised) =>
        \A n \in DOMAIN parser.log :
            (CPU_RE(parser.log[n]) /\ AnchorsBefore(n) # {}) =>
                \E i \in DOMAIN Last.records :
                    /\ Last.records[i].line = n
                    /\ Last.records[i].prefix = "CPU"
                    /\ Last.records[i].fields = CpuFieldsWritten(parser.log[n].toks)
                    /\ \A j \in DOMAIN Last.records :
                          Last.records[j].line = n => j = i

\* C19: the parser is restartable: an iteration of the kind of the one
\* before it yields the same records and the same samples, labels included.
C19_Restartable ==
    [][(Iterated /\ parser'.last[1].op = Last.op) => parser'.last = parser.last]_vars

\* C20: every record of an allowed category is expanded into samples: after
\* iter_metric_samples, each FPP, FPS and FPVLSTATS record has samples with
\* its timestamp and its record type.
C20_RecordsExpanded ==
    (Iterated /\ Last.op = "iter_metric_samples") =>
        \A i \in DOMAIN Last.records :
            LET r == Last.records[i]
            IN  (/\ r.prefix \in {"FPP", "FPS", "FPVLSTATS"}
                 /\ \/ parser._allowed_categories = None
                    \/ _metric_category(r.prefix) \in parser._allowed_categories[1])
                => \E j \in DOMAIN Last.samples :
                      /\ Last.samples[j].ts_ms = r.ts_ms
                      /\ <<"record_type", r.prefix>> \in Last.samples[j].labels

\* ------------------------------------------------------------------------
\* Properties of the SQL gateway
\* ------------------------------------------------------------------------
\* the last call of timescale_sql
SqlCall == tool.last[1]

SqlCalled == tool.last # None

\* the first piece of the text that is no comment ("" when there is none)
RECURSIVE FirstAfterComments(_)
FirstAfterComments(sql) ==
    IF sql = <<>> THEN ""
    ELSE IF Head(sql) \in {BlockComment, LineComment}
    THEN FirstAfterComments(Tail(sql))
    ELSE Head(sql)

\* a ';' is left when the semicolons that end the text are taken away
SemicolonLeft(sql) == \E i \in 1..(Len(sql) - 1) : sql[i] \in {";", ";;"}

SqlRejected ==
    /\ SqlCall.ret.error # None
    /\ SqlCall.executed = None
    /\ tool.rows = SqlCall.rows_before

\* C21: an input whose first keyword after the leading comments is neither
\* SELECT nor WITH, or that keeps a ';' once its trailing semicolons are
\* trimmed, is rejected and nothing is sent to the store.
C21_NonSelectRejected ==
    (/\ SqlCalled
     /\ \/ FirstAfterComments(tool.sql) \notin {"select", "SELECT", "with"}
        \/ SemicolonLeft(tool.sql))
    => SqlRejected

\* a DELETE and a two-statement input were each turned away (the second
\* one by its ';')
C21_Witness ==
    /\ SqlCalled /\ tool.dsn /\ SqlRejected
    /\ \/ FirstAfterComments(tool.sql) = "delete"
       \/ /\ FirstAfterComments(tool.sql) = "select"
          /\ SemicolonLeft(tool.sql)
          /\ SqlCall.ret.error = Some("multiple_statements_disallowed")

\* C22: the gateway is read-only: a statement it accepts and the store
\* executes leaves the stored rows as they were.
C22_ReadOnly ==
    (SqlCalled /\ SqlCall.executed # None /\ SqlCall.ret.error = None)
    => tool.rows = SqlCall.rows_before

\* the query has a LIMIT clause of its own
HasLimitClause(sql) == \E i \in DOMAIN sql : sql[i] \in LimitClauses

\* C23: an accepted query without a LIMIT clause runs wrapped with LIMIT
\* max_rows, returns at most max_rows rows and is truncated exactly when it
\* returns max_rows rows; one with a LIMIT clause of its own runs unwrapped
\* and is not truncated.
C23_AutoLimit ==
    (SqlCalled /\ SqlCall.ret.error = None) =>
        IF HasLimitClause(tool.sql)
        THEN SqlCall.executed[1].limit = None /\ ~SqlCall.ret.truncated
        ELSE /\ SqlCall.executed[1].limit = Some(tool.max_rows)
             /\ SqlCall.ret.row_count <= tool.max_rows
             /\ SqlCall.ret.truncated <=> (SqlCall.ret.row_count = tool.max_rows)

\* ------------------------------------------------------------------------
\* Properties of log discovery
\* ------------------------------------------------------------------------
Discovered == tool.last # None /\ tool.dir # None

\* the validly named log files of the directory
ValidLogs == {x \in tool.dir[1] \cap PtopNames : x[1] # 0}

\* name a carries an earlier datetime than name b
Older(a, b) == a[1] < b[1] \/ (a[1] = b[1] /\ a[2] < b[2])

\* max(max_files, 1)
Requested == IF tool.max_files >= 1 THEN tool.max_files ELSE 1

\* C24: with n >= 1 validly named files, the call returns the
\* min(max(max_files, 1), n) files with the newest datetimes, oldest first.
C24_NewestOldestFirst ==
    (Discovered /\ ValidLogs # {}) =>
        LET sel == tool.last[1].selected
        IN  /\ Len(sel) = Min(Requested, Cardinality(ValidLogs))
            /\ Range(sel) \subseteq ValidLogs
            /\ \A i \in 1..(Len(sel) - 1) : Older(sel[i], sel[i + 1])
            /\ \A x \in ValidLogs \ Range(sel) : \A i \in DOMAIN sel : Older(x, sel[i])

\* four files and max_files = 2: the two newest, oldest first
C24_Witness ==
    /\ Discovered /\ Cardinality(ValidLogs) = 4 /\ tool.max_files = 2
    /\ tool.last[1].selected = << <<2, 0>>, <<2, 720>> >>

\* C25: when the n candidates found exceed the requested max_files m, the
\* warnings hold max_files_truncated and selected_<m>_of_<n>_candidates_
\* requested_<m>, n counted before the truncation.
C25_TruncationWarning ==
    (Discovered /\ tool.max_files >= 1 /\ Cardinality(ValidLogs) > tool.max_files) =>
        /\ <<"max_files_truncated">> \in tool.last[1].warnings
        /\ SelectedWarning(tool.max_files, Cardinality(ValidLogs), tool.max_files)
              \in tool.last[1].warnings

\* ------------------------------------------------------------------------
\* Properties of load_bundle
\* ------------------------------------------------------------------------

\* C27: when extraction, discovery or ingestion raises during a fresh load,
\* the call still returns: the new bundle_id, reused false, zero counts and
\* the ingest_failed warning; the provisional row is in the catalog and is the
\* active bundle.
C27_IngestFailureKeepsBundle ==
    (result.op = "load_bundle" /\ result.ingest_failed) =>
        /\ result.status = "returned"
        /\ result.bundle_id # NULL
        /\ ~result.reused
        /\ result.metrics_ingested = 0 /\ result.logs_processed = 0
        /\ \E r \in bundles :
              /\ r.bundle_id = result.bundle_id
              /\ r.logs_processed = 0 /\ r.metrics_ingested = 0 /\ r.ingested = 0
        /\ get_global_active(global_active) = result.bundle_id

\* a failing fresh load while another bundle was loaded before it
C27_Witness ==
    /\ result.op = "load_bundle" /\ result.ingest_failed
    /\ \E r \in bundles : r.bundle_id = result.bundle_id /\ r.ingested = 0
    /\ \E r \in bundles : r.bundle_id # result.bundle_id /\ r.ingested = 1
    /\ get_global_active(global_active) = result.bundle_id

\* C40: load_bundle returns reused = true only for a bundle whose ingestion
\* completed: the row it returns has ingested = 1.
C40_ReusedOnlyIfIngested ==
    (result.op = "load_bundle" /\ result.status = "returned" /\ result.reused) =>
        \E r \in bundles : r.bundle_id = result.bundle_id /\ r.ingested = 1

\* both interleaved calls have returned or raised
BothDone == \A c \in Callers : tool.call[c].pc = "done"

\* C39: when two load_bundle calls for the same not-yet-known (sptid, bundle
\* content) are interleaved statement by statement, both complete without
\* raising, exactly one row for that (sptid, bundle_hash) exists afterwards,
\* and the active pointer references a row that exists.
C39_InterleavedLoads ==
    BothDone =>
        /\ \A c \in Callers : tool.call[c].status = "returned"
        /\ Cardinality(RowsOfKey(bundles, tool.sptid, tool.h)) = 1
        /\ Pointer(global_active) \in Ids(bundles)

\* C26: a load_bundle call without a categories argument ingests under the
\* allowlist {CPU}: every sample submitted to the writer is of category CPU
\* and the category list of the bundle row is 'CPU'.
C26_DefaultAllowlistCpu ==
    (tool.last # None /\ tool.categories = None) =>
        /\ \A i \in DOMAIN tool.last[1].submitted :
              Get(tool.last[1].submitted[i].labels, "metric_category") = "CPU"
        /\ tool.last[1].plugins = <<"CPU">>

\* ------------------------------------------------------------------------
\* Properties of metric_search
\* ------------------------------------------------------------------------
Searched == tool.last # None

Returned == tool.last[1].candidates

\* a position holding the top score, and the best score of the other
\* positions (0 when there is none)
TopAt == CHOOSE i \in DOMAIN Returned :
            \A j \in DOMAIN Returned : Returned[i].score >= Returned[j].score

RunnerUp ==
    IF Len(Returned) = 1 THEN 0
    ELSE LET rest == {Returned[j].score : j \in DOMAIN Returned \ {TopAt}}
         IN  CHOOSE x \in rest : \A y \in rest : x >= y

Confident ==
    /\ Returned # <<>>
    /\ \/ Returned[TopAt].score >= 90
       \/ Returned[TopAt].score - RunnerUp >= 15

\* C28: the decision is 'auto' iff there are candidates and s1 >= 0.90 or
\* s1 - s2 >= 0.15 (s2 = 0 with one candidate), 'no_match' iff there are
\* none, 'ambiguous' otherwise; auto_selected is the first candidate's
\* metric_name exactly when the decision is 'auto', and null otherwise.
C28_Decision ==
    Searched =>
        /\ tool.last[1].decision = "auto" <=> Confident
        /\ tool.last[1].decision = "no_match" <=> Returned = <<>>
        /\ tool.last[1].decision = "ambiguous" <=> (Returned # <<>> /\ ~Confident)
        /\ tool.last[1].auto_selected =
              IF tool.last[1].decision = "auto"
              THEN Some(Returned[1].metric_name) ELSE None
        /\ Returned # <<>> => Returned[1].score = Returned[TopAt].score

\* the gap rule alone decides: 0.75 against 0.01, below the absolute threshold
C28_Witness ==
    /\ Searched /\ Len(Returned) = 2
    /\ Returned[1].score = 75 /\ Returned[2].score = 1
    /\ tool.last[1].decision = "auto"
    /\ tool.last[1].auto_selected = Some("cpu_utilization")

\* the entries the search injects as hints
HintNames == {"top_process_stats", "smaps_process_memory"}

\* C36: an injected hint entry is never auto-selected: whenever the decision
\* is 'auto', auto_selected is the metric of a document the search matched.
C36_HintNeverAutoSelected ==
    (Searched /\ tool.last[1].decision = "auto") =>
        /\ tool.last[1].auto_selected # None
        /\ tool.last[1].auto_selected[1] \notin HintNames
        /\ \E i \in DOMAIN tool.matches :
              tool.matches[i].metric_name = tool.last[1].auto_selected[1]

\* ------------------------------------------------------------------------
\* Properties of the extraction
\* ------------------------------------------------------------------------
Extracted == tool.last # None /\ ~tool.last[1].raised

BeginsWithSlash(m) == m[1] = ""

HasDotDotSegment(m) == \E i \in DOMAIN m : m[i] = ".."

\* the pieces of the member names that hold two dots in a row
HasDotDot(m) == \E i \in DOMAIN m : m[i] \in {"..", "a..b", "..hidden"}

\* C29 as stated: no member whose name begins with '/' or contains '..' is
\* written; the other members are extracted.
C29_NoDotDotNameWritten ==
    Extracted =>
        \A i \in DOMAIN tool.archive :
            LET m == tool.archive[i]
            IN  m \in tool.dest <=> ~(BeginsWithSlash(m) \/ HasDotDot(m))

\* C29: no member whose name begins with '/' or has a '..' path segment is
\* written; the other members are extracted.
C29_UnsafeMembersSkipped ==
    Extracted =>
        /\ \A i \in DOMAIN tool.archive :
              LET m == tool.archive[i]
              IN  m \in tool.dest <=> ~(BeginsWithSlash(m) \/ HasDotDotSegment(m))
        /\ tool.dest \subseteq Range(tool.archive)

\* an archive with an unsafe member in front of a safe one
C29_Witness ==
    /\ Extracted
    /\ tool.archive = << <<"a", "..", "b">>, <<"var", "log", "x">> >>
    /\ tool.dest = { <<"var", "log", "x">> }
====
